---- MODULE Spec2Model ----
(***************************************************************************)
(* Chat session state machine and keyword-detection engine of              *)
(* CHZZK-Chat-Monitor (run.py: ChzzkChat).                                 *)
(*                                                                         *)
(* The session worker runs ChzzkChat.run(); a second thread (the GUI host) *)
(* may call ChzzkChat.stop() at any moment; in the command-line host the   *)
(* worker is the main thread and may receive KeyboardInterrupt.            *)
(* Connections are numbered by the connect attempt that opened them.       *)
(***************************************************************************)
EXTENDS Integers, Sequences, FiniteSets, TLC

\* ---------------------------------------------------------------- bounds
MaxAttempts   == 3   \* connect attempts of a session (attempt 1 is the constructor's)
MaxEntries    == 1   \* chat/donation entries delivered to a session
MaxHits       == 3   \* chat entries fed to the detection engine (EngineSpec)
MaxSessions   == 2   \* sessions started from the GUI (HostSpec)
MaxHostFrames == 2   \* chat frames delivered to the sessions of the GUI (HostSpec)

\* ------------------------------------------------- texts and keyword rules
KwA == <<"a">>
KwB == <<"b">>
NoHit == <<>>

Lower(c) ==
    CASE c = "A" -> "a" [] c = "B" -> "b" [] c = "W" -> "w" [] c = "I" -> "i"
      [] c = "N" -> "n" [] OTHER -> c

\* \w: letters (digits and "_" do not occur in the texts used); " " is not
IsWord(c) ==
    c \in {"a", "b", "e", "i", "n", "o", "r", "w", "x", "A", "B", "I", "N", "W"}

LowerSeq(s) == [i \in 1..Len(s) |-> Lower(s[i])]

\* the keyword occurs in the text at position i, compared case-insensitively
OccursAt(kw, text, i) ==
    /\ i + Len(kw) - 1 <= Len(text)
    /\ \A j \in 1..Len(kw) : Lower(text[i + j - 1]) = kw[j]

\* mutant: the pattern without its word-boundary lookarounds
PatternSearch_NoBoundary(kw, text) ==
    \E i \in 1..Len(text) : OccursAt(kw, text, i)

\* re.compile(rf"(?<!\w){escaped}(?!\w)", re.IGNORECASE).search(text)
PatternSearch(kw, text) ==
    \E i \in 1..Len(text) :
        /\ OccursAt(kw, text, i)
        /\ (i = 1 \/ ~IsWord(text[i - 1]))
        /\ (i + Len(kw) - 1 = Len(text) \/ ~IsWord(text[i + Len(kw)]))

\* mutant: a contains keyword must stand as a whole word
ContainsSearch_WholeWord(kw, text) == PatternSearch(kw, text)

\* kw in text_lower
ContainsSearch(kw, text) ==
    \E i \in 1..Len(text) : OccursAt(kw, LowerSeq(text), i)

RECURSIVE FirstPattern(_, _)
FirstPattern(pats, text) ==
    IF pats = <<>> THEN NoHit
    ELSE IF PatternSearch(Head(pats), text) THEN Head(pats)
    ELSE FirstPattern(Tail(pats), text)

RECURSIVE FirstContains(_, _)
FirstContains(lst, text) ==
    IF lst = <<>> THEN NoHit
    ELSE IF ContainsSearch(Head(lst), text) THEN Head(lst)
    ELSE FirstContains(Tail(lst), text)

\* mutant: the contains rules are tried before the exact rules
MatchKeyword_ContainsFirst(pol, text) ==
    LET h == FirstContains(pol.containsList, text)
    IN  IF h # NoHit THEN h ELSE FirstPattern(pol.patterns, text)

\* the keyword a message text is attributed to (run.py 349-358)
MatchKeyword(pol, text) ==
    LET h == FirstPattern(pol.patterns, text)
    IN  IF h # NoHit THEN h ELSE FirstContains(pol.containsList, text)

\* msgTime is in milliseconds, windows are in seconds (run.py 365)
MsPerSec == 1000

\* dict.get(key, default) on a map kept as a function over a subset of keys
Get(map, key, default) == IF key \in DOMAIN map THEN map[key] ELSE default

\* mutant: a hit exactly window_sec old is evicted too
RECURSIVE PopOld_EvictBoundary(_, _)
PopOld_EvictBoundary(dq, cutoff) ==
    IF dq # <<>> /\ Head(dq) <= cutoff THEN PopOld_EvictBoundary(Tail(dq), cutoff) ELSE dq

\* run.py 370-372: while dq and dq[0] < cutoff: dq.popleft()
RECURSIVE PopOld(_, _)
PopOld(dq, cutoff) ==
    IF dq # <<>> /\ Head(dq) < cutoff THEN PopOld(Tail(dq), cutoff) ELSE dq

\* the keyword policy the session is built with: the exact keyword "a"
\* (word-boundary pattern, global threshold and window) and the contains
\* keyword "b" (its own threshold and window)
Keywords == {KwA, KwB}

PolicySet ==
    { [keywords |-> Keywords, patterns |-> <<KwA>>, containsList |-> <<KwB>>,
       keyword_threshold |-> 1, keyword_window |-> 1,
       keyword_thresholds |-> (KwB :> 2), keyword_windows |-> (KwB :> 1)] }

\* message texts, message timestamps (seconds), persisted seed counts and
\* chat-channel ids (as reported by the resolver) the session is run on
Texts == { <<"A">>, <<"x", "b">> }
TimeStamps == {0}
Cids == {1, 2}
Seeds == {0}

\* entries of a CHAT / DONATION frame body
EntrySet ==
    { [shape |-> "ok", msg |-> t, msgTime |-> ts] : t \in Texts, ts \in TimeStamps }
    \cup { [shape |-> "noprofile", msg |-> <<"A">>, msgTime |-> 0] }

FirstEntries == { [shape |-> "ok", msg |-> <<"A">>, msgTime |-> 0] }

DonationEntries == { [shape |-> "anonymous", msg |-> <<"x", "b">>, msgTime |-> 0] }

Bodies ==
    { <<e>> : e \in EntrySet } \cup { <<e1, e2>> : e1 \in FirstEntries, e2 \in EntrySet }

NoFrame == [cmd |-> "none", bdy |-> <<>>]

Frames ==
    { [cmd |-> c, bdy |-> <<>>] : c \in {"ping", "other", "malformed"} }
    \cup { [cmd |-> "chat", bdy |-> b] : b \in Bodies }
    \cup { [cmd |-> "donation", bdy |-> <<e>>] : e \in DonationEntries }

\* ---------------------------------------- building the policy (__init__)
SeqToSet(s) == { s[i] : i \in DOMAIN s }

\* a list without its repeated elements, first occurrences kept in order
RECURSIVE Dedup(_)
Dedup(s) ==
    IF s = <<>> THEN <<>>
    ELSE LET d == Dedup(SubSeq(s, 1, Len(s) - 1))
         IN  IF s[Len(s)] \in SeqToSet(d) THEN d ELSE Append(d, s[Len(s)])

\* the orders in which a set can be iterated
Perms(S) ==
    { p \in [1..Cardinality(S) -> S] :
        \A i, j \in 1..Cardinality(S) : i # j => p[i] # p[j] }

\* run.py 100-118: keywords of the contains entries, in order
ContainsKeywords(cfg) == [i \in DOMAIN cfg.contains_keywords |-> cfg.contains_keywords[i].keyword]

\* run.py 58-62 / 84-88 and 119-134: per-keyword map from the config, then
\* overridden by each contains entry in turn (field f: "threshold" / "window")
PerKeyword(cfg, base, f) ==
    LET ck == ContainsKeywords(cfg)
        lastOf(k) == CHOOSE i \in DOMAIN ck :
                        ck[i] = k /\ \A j \in DOMAIN ck : ck[j] = k => j <= i
    IN  [k \in DOMAIN base \cup SeqToSet(ck) |->
            IF k \in SeqToSet(ck) THEN cfg.contains_keywords[lastOf(k)][f] ELSE base[k]]

\* run.py 29-46, 135-143: self.keywords
KeywordSet(cfg) ==
    SeqToSet(cfg.keywords) \cup SeqToSet(ContainsKeywords(cfg))
    \cup DOMAIN cfg.per_keyword_thresholds \cup DOMAIN cfg.per_keyword_windows

\* the exact keywords in the order the merged configuration registers them
ExactRegistered(cfg) ==
    LET isExact(k) == k \notin SeqToSet(ContainsKeywords(cfg))
    IN  SelectSeq(Dedup(cfg.keywords), isExact)

\* mutant: a word-boundary pattern is compiled for every keyword
Policies_PatternForEveryKeyword(cfg) ==
    { [keywords |-> KeywordSet(cfg),
       patterns |-> p,
       containsList |-> Dedup(ContainsKeywords(cfg)),
       keyword_threshold |-> cfg.global_threshold,
       keyword_window |-> cfg.global_window,
       keyword_thresholds |-> PerKeyword(cfg, cfg.per_keyword_thresholds, "threshold"),
       keyword_windows |-> PerKeyword(cfg, cfg.per_keyword_windows, "window")] :
      p \in Perms(KeywordSet(cfg)) }

\* run.py 19-155: the policies __init__ can build from a configuration.
\* self.keyword_patterns is filled by iterating the set self.keywords (line
\* 150): its order is the set's iteration order, i.e. any order
Policies(cfg) ==
    { [keywords |-> KeywordSet(cfg),
       patterns |-> p,
       containsList |-> Dedup(ContainsKeywords(cfg)),
       keyword_threshold |-> cfg.global_threshold,
       keyword_window |-> cfg.global_window,
       keyword_thresholds |-> PerKeyword(cfg, cfg.per_keyword_thresholds, "threshold"),
       keyword_windows |-> PerKeyword(cfg, cfg.per_keyword_windows, "window")] :
      p \in Perms(KeywordSet(cfg) \ SeqToSet(ContainsKeywords(cfg))) }

\* ------------------------------------- stored configuration, environment
\* a value as it stands in the store file or in an environment variable: an
\* integer, a string of decimal digits, another string, or null / absent /
\* unset
IntVal(n)   == [t |-> "int", v |-> n]
DigitStr(n) == [t |-> "digits", v |-> n]
OtherStr    == [t |-> "str", v |-> 0]
NoneVal     == [t |-> "none", v |-> 0]

DefaultThreshold == 1
DefaultWindow == 60

Max(a, b) == IF a >= b THEN a ELSE b

\* mutant: any value int() accepts is kept, whatever its sign
EnsurePositiveInt_AnyInt(value, default) ==
    IF value.t \in {"int", "digits"} THEN value.v ELSE default

\* config_store.py 19-24: _ensure_positive_int
EnsurePositiveInt(value, default) ==
    IF value.t \in {"int", "digits"} /\ value.v >= 1 THEN value.v ELSE default

\* str(v).isdigit(): decimal digits only, so no sign
IsDigit(value) == value.t = "digits" \/ (value.t = "int" /\ value.v >= 0)

\* config_store.py 142-175: the contains entries, one per lower-cased
\* keyword (the first one), each with a threshold and a window filled in
RECURSIVE SanitizeContains(_)
SanitizeContains(items) ==
    IF items = <<>> THEN <<>>
    ELSE LET front == SanitizeContains(SubSeq(items, 1, Len(items) - 1))
             item  == items[Len(items)]
         IN  IF \E i \in DOMAIN front : LowerSeq(front[i].keyword) = LowerSeq(item.keyword)
               THEN front
               ELSE Append(front,
                      [keyword   |-> item.keyword,
                       threshold |-> EnsurePositiveInt(item.threshold, DefaultThreshold),
                       window    |-> EnsurePositiveInt(item.window, DefaultWindow)])

\* config_store.py 97-177: _sanitize_config.  A global value of 0 stands for
\* None (run.py 49 and 75 replace both by the default)
SanitizeConfig(rawcfg) ==
    [keywords |-> rawcfg.keywords,
     global_threshold |->
        IF rawcfg.global_threshold.t = "none" THEN 0
        ELSE EnsurePositiveInt(rawcfg.global_threshold, DefaultThreshold),
     per_keyword_thresholds |->
        [k \in DOMAIN rawcfg.per_keyword_thresholds |->
            EnsurePositiveInt(rawcfg.per_keyword_thresholds[k], DefaultThreshold)],
     global_window |->
        IF rawcfg.global_window.t = "none" THEN 0
        ELSE EnsurePositiveInt(rawcfg.global_window, DefaultWindow),
     per_keyword_windows |->
        [k \in DOMAIN rawcfg.per_keyword_windows |->
            EnsurePositiveInt(rawcfg.per_keyword_windows[k], DefaultWindow)],
     contains_keywords |-> SanitizeContains(rawcfg.contains_keywords)]

\* run.py 48-55 and 74-81: stored global value or the default, then the
\* environment variable when it is a string of digits
EffectiveGlobal(stored, envval, default) ==
    IF envval.t = "digits" THEN Max(1, envval.v)
    ELSE IF stored = 0 THEN default ELSE stored

\* run.py 57-72 and 83-98: stored per-keyword map under lower-cased keys,
\* then every entry of the environment's JSON map whose value is all digits
EffectiveMap(stored, envmap) ==
    LET envKeys == { LowerSeq(x) : x \in { y \in DOMAIN envmap : IsDigit(envmap[y]) } }
        stoKeys == { LowerSeq(x) : x \in DOMAIN stored }
        envOf(k) == envmap[CHOOSE x \in DOMAIN envmap : IsDigit(envmap[x]) /\ LowerSeq(x) = k]
        stoOf(k) == stored[CHOOSE x \in DOMAIN stored : LowerSeq(x) = k]
    IN  [k \in stoKeys \cup envKeys |->
            IF k \in envKeys THEN Max(1, envOf(k).v) ELSE Max(1, stoOf(k))]

\* run.py 27-128: the sanitized configuration merged with the environment,
\* keywords lower-cased
MergedConfig(cfg, env) ==
    [keywords |-> [i \in DOMAIN (cfg.keywords \o env.KEYWORDS) |->
                      LowerSeq((cfg.keywords \o env.KEYWORDS)[i])],
     global_threshold |->
        EffectiveGlobal(cfg.global_threshold, env.KEYWORD_THRESHOLD, DefaultThreshold),
     per_keyword_thresholds |->
        EffectiveMap(cfg.per_keyword_thresholds, env.KEYWORD_THRESHOLDS),
     global_window |->
        EffectiveGlobal(cfg.global_window, env.KEYWORD_WINDOW, DefaultWindow),
     per_keyword_windows |->
        EffectiveMap(cfg.per_keyword_windows, env.KEYWORD_WINDOWS),
     contains_keywords |->
        [i \in DOMAIN cfg.contains_keywords |->
            [keyword   |-> LowerSeq(cfg.contains_keywords[i].keyword),
             threshold |-> Max(1, cfg.contains_keywords[i].threshold),
             window    |-> Max(1, cfg.contains_keywords[i].window)]]]

\* run.py 26-155: load_config() and the environment give the policy
BuiltPolicies(rawcfg, env) == Policies(MergedConfig(SanitizeConfig(rawcfg), env))

NoEnv ==
    [KEYWORDS |-> <<>>, KEYWORD_THRESHOLD |-> NoneVal, KEYWORD_THRESHOLDS |-> <<>>,
     KEYWORD_WINDOW |-> NoneVal, KEYWORD_WINDOWS |-> <<>>]

\* the store file behind the session policy PolicySet
SessionRawConfig ==
    [keywords |-> <<KwA>>,
     global_threshold |-> IntVal(1), global_window |-> IntVal(1),
     per_keyword_thresholds |-> <<>>, per_keyword_windows |-> <<>>,
     contains_keywords |->
        << [keyword |-> KwB, threshold |-> IntVal(2), window |-> IntVal(1)] >>]

\* stored configurations and environments a session is constructed from
KwBUpper == <<"B">>
KwAUpper == <<"A">>
KwC == <<"c">>

RawKeywordLists == { <<KwA>>, <<KwAUpper, KwB>> }
RawThresholds == { NoneVal, IntVal(0), OtherStr, IntVal(3) }
RawWindows == { NoneVal, IntVal(-1), IntVal(30) }
RawThresholdMaps == { <<>>, (KwC :> IntVal(2)), (KwA :> IntVal(0)) }
RawWindowMaps == { <<>>, (KwA :> OtherStr) }
RawContains ==
    { <<>>,
      << [keyword |-> KwBUpper, threshold |-> NoneVal, window |-> NoneVal] >>,
      << [keyword |-> KwB, threshold |-> IntVal(2), window |-> IntVal(0)],
         [keyword |-> KwBUpper, threshold |-> IntVal(1), window |-> IntVal(5)] >> }

RawConfigs ==
    { [keywords |-> ks, global_threshold |-> gt, per_keyword_thresholds |-> pt,
       global_window |-> gw, per_keyword_windows |-> pw, contains_keywords |-> ck] :
      ks \in RawKeywordLists, gt \in RawThresholds, pt \in RawThresholdMaps,
      gw \in RawWindows, pw \in RawWindowMaps, ck \in RawContains }

Environs ==
    { NoEnv,
      [KEYWORDS |-> <<KwB>>, KEYWORD_THRESHOLD |-> DigitStr(2),
       KEYWORD_THRESHOLDS |-> (KwC :> IntVal(4)),
       KEYWORD_WINDOW |-> DigitStr(0), KEYWORD_WINDOWS |-> <<>>],
      [KEYWORDS |-> <<>>, KEYWORD_THRESHOLD |-> OtherStr,
       KEYWORD_THRESHOLDS |-> (KwAUpper :> IntVal(-2)),
       KEYWORD_WINDOW |-> NoneVal, KEYWORD_WINDOWS |-> (KwA :> DigitStr(7))] }

\* ------------------------------------------ inputs of the detection engine
KwWin == <<"w", "i", "n">>
KwIn  == <<"i", "n">>

\* exact keywords "win" (threshold 2, window 15 s) and "a" (global threshold
\* 1, global window 60 s); contains keyword "in" (threshold 1, window 10 s)
EngineConfig ==
    [keywords |-> <<KwWin, KwA>>,
     global_threshold |-> 1, global_window |-> 60,
     per_keyword_thresholds |-> (KwWin :> 2),
     per_keyword_windows |-> (KwWin :> 15),
     contains_keywords |-> << [keyword |-> KwIn, threshold |-> 1, window |-> 10] >>]

\* the store file behind EngineConfig
EngineRawConfig ==
    [keywords |-> <<KwWin, KwA>>,
     global_threshold |-> NoneVal, global_window |-> NoneVal,
     per_keyword_thresholds |-> (KwWin :> IntVal(2)),
     per_keyword_windows |-> (KwWin :> IntVal(15)),
     contains_keywords |->
        << [keyword |-> KwIn, threshold |-> IntVal(1), window |-> IntVal(10)] >>]

EnginePolicies == Policies(EngineConfig)

WeWinNow == <<"w", "e", " ", "w", "i", "n", " ", "n", "o", "w">>
WinUpper == <<"W", "I", "N">>
Winner   == <<"w", "i", "n", "n", "e", "r">>
AWin     == <<"a", " ", "w", "i", "n">>
WinnerMixed == <<"W", "I", "N", "n", "e", "r">>

EngineTexts == {WeWinNow, WinUpper, Winner, WinnerMixed, AWin, <<"x">>}
EngineTimes == {0, 10000, 20000, 30000}
EngineSeeds == {5}

EngineEntries ==
    { [shape |-> "ok", msg |-> t, msgTime |-> ts] : t \in EngineTexts, ts \in EngineTimes }

\* entries of an unexpected shape (run.py 324-342): no profile or a profile
\* that does not parse ("noprofile"), a profile but no 'msg' ("nomsg"), no
\* 'msgTime' ("notime"), an anonymous entry without 'msg' ("anon_nomsg")
OddShapes == {"noprofile", "nomsg", "notime", "anon_nomsg"}

EngineOddEntries == { [shape |-> sh, msg |-> <<"x">>, msgTime |-> 0] : sh \in OddShapes }

EngineFrames ==
    { [cmd |-> "chat", bdy |-> <<e>>] : e \in EngineEntries }
    \cup { [cmd |-> "chat", bdy |-> <<e1, e2>>] :
             e1 \in {e \in EngineEntries : e.msg = AWin}, e2 \in EngineEntries }
    \cup { [cmd |-> "chat", bdy |-> <<e1, e2>>] :
             e1 \in EngineOddEntries, e2 \in {e \in EngineEntries : e.msgTime = 0} }

\* "recentMessageCount" of the REQUEST_RECENT_CHAT frame
RecentMessageCount == 50

\* frames of the handshake as they pass on a connection: the CONNECT frame
\* (with its cid), the response the session id is read from, the
\* REQUEST_RECENT_CHAT frame (with the sid it carries), the response to it
ConnectFrame(cid)  == [ev |-> "connect", arg |-> cid, n |-> 0]
SidResponse(s)     == [ev |-> "sid", arg |-> s, n |-> 0]
RecentFrame(s)     == [ev |-> "recent", arg |-> s, n |-> RecentMessageCount]
HistoryResponse    == [ev |-> "history", arg |-> 0, n |-> 0]

\* ------------------------------------------------------------------ state
VARIABLES
    host,           \* "gui": stop() comes from another thread; "cli": run.py __main__
    pc,             \* position of the session worker in run() / connect()
    ret,            \* where connect() was called from: "recv" (line 290), "ping" (line 309); "none" outside connect()
    spc,            \* position of the thread executing stop() / close()
    interrupted,    \* a KeyboardInterrupt has been delivered to the worker
    stopFlag,       \* self._stop
    sock,           \* self.sock: the connection published to the receive loop
    newsock,        \* connect()'s local sock (0: not opened in this attempt)
    open,           \* connections whose `connected` is true
    att,            \* number of the current / latest connect attempt
    chatChannelId,  \* self.chatChannelId
    cidAtt,         \* attempt that assigned self.chatChannelId
    tokAtt,         \* attempt that assigned self.accessToken, self.extraToken
    sid,            \* self.sid, identified by the attempt that received it
    connCid,        \* per connection: cid of the CONNECT frame sent on it (0: none sent)
    curCid,         \* the chat-channel id the resolver currently reports
    bst,            \* self.broadcast_start_timestamp is not None
    raw,            \* raw_message being dispatched
    idx,            \* index of the entry of raw.bdy being processed
    hit,            \* keyword of the hit being recorded
    policy,         \* keywords, patterns, contains list, thresholds, windows
    keyword_counts,       \* self.keyword_counts (cumulative)
    keyword_hits_window,  \* self.keyword_hits_window
    stored_counts,        \* counts in the counts store
    keyword_log,          \* lines appended to keyword_times.log
    logOpen,              \* self.keyword_log is not closed
    delivered,      \* chat/donation entries delivered so far
    stopAtRecv,     \* stop() was called while the worker was blocked in receive
    needReconnect,  \* a receive failed and no connect has succeeded since
    pingFrom,       \* connection whose latest PING is not answered yet (0: none)
    wire,           \* per connection: the handshake frames sent and received on it, in order
    hitTimes,       \* per keyword: timestamps of all hits recorded in this session, in order
    seeded,         \* the counts the session was seeded with (load_counts() at construction)
    syslog,         \* the [KEYCOUNT] lines written to the system log
    startFetched,   \* the latest fetch of the broadcast start instant succeeded
    raw_config,     \* the "config" object of keyword_settings.json, as stored
    environ,        \* the environment variables __init__ reads
    legacy_counts,  \* the content of the legacy file keyword_counts.json
    store,          \* GUI host: keyword_settings.json (keywords of the config, counts)
    nsess,          \* GUI host: number of sessions started so far
    wpc,            \* per session: position of its thread in run_backend
    wstop,          \* per session: self._stop
    wopen,          \* per session: self.sock is connected
    wkeys,          \* per session: self.keywords
    wcounts,        \* per session: self.keyword_counts
    wtmp,           \* per session: `data` of a save_counts in progress
    gpc,            \* position of the Tk thread ("idle": between handlers)
    gtmp,           \* `data` of the save_config in progress
    gcfg,           \* the config being saved by App.start
    chat_obj,       \* App.chat_obj (0: None)
    startEnabled,   \* state of the Start button
    stopEnabled,    \* state of the Stop button
    pendingConnected,  \* an on_connected callback is queued with after(0, ...)
    pendingAutoStop,   \* an _auto_stop_after_error callback is queued
    stopRan,        \* sessions that were the latest started when App.stop ran
    hostFrames      \* chat frames delivered so far to the sessions of the GUI

connVars == <<sock, newsock, open, att, chatChannelId, cidAtt, tokAtt, sid, connCid, bst>>
kwVars   == <<policy, keyword_counts, keyword_hits_window, stored_counts, keyword_log>>
dispVars == <<raw, idx, hit>>
stopVars == <<spc, stopFlag, logOpen, stopAtRecv>>
envVars  == <<host, curCid, delivered, interrupted>>
histVars == <<needReconnect, pingFrom>>
hostVars == <<store, nsess, wpc, wstop, wopen, wkeys, wcounts, wtmp, gpc, gtmp, gcfg, chat_obj,
              startEnabled, stopEnabled, pendingConnected, pendingAutoStop, stopRan, hostFrames>>
cfgVars  == <<seeded, raw_config, environ, legacy_counts, hostVars>>
engLog   == <<hitTimes, cfgVars, syslog>>
logVars  == <<wire, engLog, startFetched>>

vars == <<pc, ret, connVars, kwVars, dispVars, stopVars, envVars, histVars, logVars>>

ConnectPcs == {"c_cid", "c_tok", "c_open", "c_send1", "c_recv1", "c_send2",
               "c_recv2", "c_pub", "c_chk"}

\* state after ChzzkChat.__init__ returned: the first connect() succeeded
\* ------------------------------------------------------------- GUI host
\* gui.py: the Tk thread runs the handlers App.start, App.on_connected and
\* App.stop one at a time; App.start starts a thread running run_backend for
\* each session.  Sessions are numbered in the order they are started.
Sessions == 1..MaxSessions

\* keyword lists the user saves with App.start
HostConfigs == { {KwA}, {KwA, KwB} }

\* no data read (the local `data` of save_config / save_counts)
NoData == [config |-> {}, counts |-> <<>>]

\* positions of a worker inside ChzzkChat.run()
LoopPcs == {"loop", "recv", "recv2", "reconn", "save_read", "save_write"}

OtherVars ==
    <<pc, ret, connVars, kwVars, dispVars, stopVars, envVars, histVars, wire, hitTimes,
      seeded, raw_config, environ, legacy_counts, syslog, startFetched>>

\* gui.py 392-397 and 362-366: no session yet, Start enabled, Stop disabled
HostIdle ==
    /\ store = [config |-> {KwA}, counts |-> <<>>]
    /\ nsess = 0
    /\ wpc = [s \in Sessions |-> "none"]
    /\ wstop = [s \in Sessions |-> FALSE]
    /\ wopen = [s \in Sessions |-> FALSE]
    /\ wkeys = [s \in Sessions |-> {}]
    /\ wcounts = [s \in Sessions |-> <<>>]
    /\ wtmp = [s \in Sessions |-> NoData]
    /\ gpc = "idle" /\ gtmp = NoData /\ gcfg = {}
    /\ chat_obj = 0
    /\ startEnabled = TRUE /\ stopEnabled = FALSE
    /\ pendingConnected = FALSE /\ pendingAutoStop = FALSE
    /\ stopRan = {}
    /\ hostFrames = 0

Init ==
    /\ host \in {"gui", "cli"}
    /\ pc = "loop" /\ ret = "none"
    /\ spc = "idle" /\ interrupted = FALSE
    /\ stopFlag = FALSE
    /\ sock = 1 /\ newsock = 0 /\ open = {1} /\ att = 1
    /\ chatChannelId = 1 /\ cidAtt = 1 /\ tokAtt = 1 /\ sid = 1
    /\ connCid = [c \in 1..MaxAttempts |-> IF c = 1 THEN 1 ELSE 0]
    /\ curCid = 1
    /\ bst = TRUE
    /\ raw = NoFrame /\ idx = 0 /\ hit = NoHit
    /\ policy \in PolicySet
    /\ \E s \in Seeds :
          /\ stored_counts = [k \in Keywords |-> s]
          /\ keyword_counts = [k \in Keywords |-> s]
          /\ seeded = [k \in Keywords |-> s]
    /\ keyword_hits_window = [k \in Keywords |-> <<>>]
    /\ hitTimes = [k \in Keywords |-> <<>>]
    /\ syslog = <<>>
    /\ startFetched = TRUE
    /\ HostIdle
    /\ legacy_counts = <<>>
    /\ raw_config = SessionRawConfig /\ environ = NoEnv
    /\ keyword_log = <<>> /\ logOpen = TRUE
    /\ delivered = 0
    /\ stopAtRecv = FALSE /\ needReconnect = FALSE
    /\ pingFrom = 0
    /\ wire = [c \in 1..MaxAttempts |->
                  IF c = 1 THEN <<ConnectFrame(1), SidResponse(1), RecentFrame(1), HistoryResponse>>
                  ELSE <<>>]

\* --------------------------------------------------------- session worker
\* connect() is entered: a new attempt begins (run.py 290, 309)
StartConnect(r) ==
    /\ att < MaxAttempts
    /\ att' = att + 1
    /\ newsock' = 0
    /\ pc' = "c_cid"
    /\ ret' = r

\* leave the frame being dispatched
DropFrame == raw' = NoFrame /\ idx' = 0 /\ hit' = NoHit

\* run.py 277: while not self._stop
WhileCheck ==
    /\ pc = "loop"
    /\ pc' = IF stopFlag THEN "done" ELSE "recv"
    /\ UNCHANGED <<ret, connVars, kwVars, dispVars, stopVars, envVars, histVars, logVars>>

\* run.py 282 / 291: self.sock.recv() returns a frame sent by the server
RecvFrame ==
    /\ pc \in {"recv", "recv2"}
    /\ sock \in open
    /\ \E f \in Frames :
          /\ delivered + Len(f.bdy) <= MaxEntries
          /\ raw' = f
          /\ delivered' = delivered + Len(f.bdy)
          /\ pingFrom' = IF f.cmd = "ping" THEN sock ELSE 0
    /\ pc' = "chk"
    /\ UNCHANGED <<ret, connVars, kwVars, idx, hit, stopVars, host, curCid, interrupted,
                   needReconnect, logVars>>

\* run.py 282 -> 287: recv() raises on a connection that is no longer open
RecvError ==
    /\ pc = "recv"
    /\ sock \notin open
    /\ pc' = "exc"
    /\ UNCHANGED <<ret, connVars, kwVars, dispVars, stopVars, envVars, histVars, logVars>>

\* run.py 291 -> 396: the receive after a reconnect raises
RecvError2 ==
    /\ pc = "recv2"
    /\ sock \notin open
    /\ pc' = "oexc"
    /\ UNCHANGED <<ret, connVars, kwVars, dispVars, stopVars, envVars, histVars, logVars>>

\* run.py 288-290: if self._stop: break; self.connect()
ExceptCheck ==
    /\ pc = "exc"
    /\ IF stopFlag
         THEN /\ pc' = "done"
              /\ UNCHANGED <<ret, att, newsock, needReconnect>>
         ELSE /\ StartConnect("recv")
              /\ needReconnect' = TRUE
    /\ UNCHANGED <<sock, open, chatChannelId, cidAtt, tokAtt, sid, connCid, bst,
                   kwVars, dispVars, stopVars, envVars, pingFrom, logVars>>

\* run.py 188: self.chatChannelId = api.fetch_chatChannelId(...)
ConnFetchCid ==
    /\ pc = "c_cid"
    /\ \/ /\ chatChannelId' = curCid
          /\ cidAtt' = att
          /\ pc' = "c_tok"
       \/ /\ att < MaxAttempts
          /\ pc' = "oexc"
          /\ UNCHANGED <<chatChannelId, cidAtt>>
    /\ UNCHANGED <<ret, sock, newsock, open, att, tokAtt, sid, connCid, bst,
                   kwVars, dispVars, stopVars, envVars, histVars, logVars>>

\* run.py 189: self.accessToken, self.extraToken = api.fetch_accessToken(...)
ConnFetchToken ==
    /\ pc = "c_tok"
    /\ \/ /\ tokAtt' = att
          /\ pc' = "c_open"
       \/ /\ att < MaxAttempts
          /\ pc' = "oexc"
          /\ UNCHANGED tokAtt
    /\ UNCHANGED <<ret, sock, newsock, open, att, chatChannelId, cidAtt, sid, connCid, bst,
                   kwVars, dispVars, stopVars, envVars, histVars, logVars>>

\* run.py 191-192: sock = WebSocket(); sock.connect(...)
ConnOpen ==
    /\ pc = "c_open"
    /\ \/ /\ newsock' = att
          /\ open' = open \cup {att}
          /\ pc' = "c_send1"
       \/ /\ att < MaxAttempts
          /\ pc' = "oexc"
          /\ UNCHANGED <<newsock, open>>
    /\ UNCHANGED <<ret, sock, att, chatChannelId, cidAtt, tokAtt, sid, connCid, bst,
                   kwVars, dispVars, stopVars, envVars, histVars, logVars>>

\* run.py 195-212: the CONNECT frame, with cid = self.chatChannelId
ConnSendConnect ==
    /\ pc = "c_send1"
    /\ IF newsock \in open
         THEN /\ connCid' = [connCid EXCEPT ![newsock] = chatChannelId]
              /\ wire' = [wire EXCEPT ![newsock] = Append(@, ConnectFrame(chatChannelId))]
              /\ pc' = "c_recv1"
         ELSE /\ pc' = "oexc"
              /\ UNCHANGED <<connCid, wire>>
    /\ UNCHANGED <<ret, sock, newsock, open, att, chatChannelId, cidAtt, tokAtt, sid, bst,
                   kwVars, dispVars, stopVars, envVars, histVars, engLog, startFetched>>

\* mutant: the session id of the response is not stored (the history request
\* then carries the previous session's id)
ConnRecvSid_KeepOldSid ==
    /\ pc = "c_recv1"
    /\ IF newsock \in open
         THEN /\ wire' = [wire EXCEPT ![newsock] = Append(@, SidResponse(att))]
              /\ pc' = "c_send2"
         ELSE /\ pc' = "oexc"
              /\ UNCHANGED wire
    /\ UNCHANGED <<ret, connVars, kwVars, dispVars, stopVars, envVars, histVars, engLog, startFetched>>

\* run.py 213-214: self.sid = json.loads(sock.recv())['bdy']['sid']
ConnRecvSid ==
    /\ pc = "c_recv1"
    /\ \/ /\ newsock \in open
          /\ sid' = att
          /\ wire' = [wire EXCEPT ![newsock] = Append(@, SidResponse(att))]
          /\ pc' = "c_send2"
       \/ /\ newsock \in open
          /\ att < MaxAttempts
          /\ pc' = "oexc"
          /\ UNCHANGED <<sid, wire>>
       \/ /\ newsock \notin open
          /\ pc' = "oexc"
          /\ UNCHANGED <<sid, wire>>
    /\ UNCHANGED <<ret, sock, newsock, open, att, chatChannelId, cidAtt, tokAtt, connCid, bst,
                   kwVars, dispVars, stopVars, envVars, histVars, engLog, startFetched>>

\* run.py 217-227: the REQUEST_RECENT_CHAT frame
ConnSendRecent ==
    /\ pc = "c_send2"
    /\ IF newsock \in open
         THEN /\ wire' = [wire EXCEPT ![newsock] = Append(@, RecentFrame(sid))]
              /\ pc' = "c_recv2"
         ELSE /\ pc' = "oexc"
              /\ UNCHANGED wire
    /\ UNCHANGED <<ret, connVars, kwVars, dispVars, stopVars, envVars, histVars, engLog, startFetched>>

\* run.py 228: sock.recv()
ConnRecvRecent ==
    /\ pc = "c_recv2"
    /\ IF newsock \in open
         THEN /\ wire' = [wire EXCEPT ![newsock] = Append(@, HistoryResponse)]
              /\ pc' = "c_pub"
         ELSE /\ pc' = "oexc"
              /\ UNCHANGED wire
    /\ UNCHANGED <<ret, connVars, kwVars, dispVars, stopVars, envVars, histVars, engLog, startFetched>>

\* run.py 231: self.sock = sock
ConnPublish ==
    /\ pc = "c_pub"
    /\ sock' = newsock
    /\ pc' = "c_chk"
    /\ UNCHANGED <<ret, newsock, open, att, chatChannelId, cidAtt, tokAtt, sid, connCid, bst,
                   kwVars, dispVars, stopVars, envVars, histVars, logVars>>

\* mutant: a failed fetch leaves the start instant of an earlier fetch in place
update_broadcast_start_time_KeepOld ==
    \E ok \in BOOLEAN : startFetched' = ok /\ bst' = (ok \/ bst)

\* run.py 418-431: fetch_start_time() returned (the instant is stored) or
\* raised (the instant is set to None)
update_broadcast_start_time ==
    \E ok \in BOOLEAN : startFetched' = ok /\ bst' = ok

\* run.py 232-240 and 418-431: if self.sock.connected: log, refresh the
\* broadcast start instant (best effort); else raise ValueError.
\* On return: line 291 (receive) or line 311 (continue).
ConnCheckSession ==
    /\ pc = "c_chk"
    /\ IF sock \in open
         THEN /\ update_broadcast_start_time
              /\ needReconnect' = FALSE
              /\ pc' = IF ret = "recv" THEN "recv2" ELSE "loop"
              /\ ret' = "none" /\ newsock' = 0
         ELSE /\ pc' = "oexc"
              /\ UNCHANGED <<bst, startFetched, needReconnect, ret, newsock>>
    /\ UNCHANGED <<sock, open, att, chatChannelId, cidAtt, tokAtt, sid, connCid,
                   dispVars, stopVars, envVars, pingFrom, wire, engLog>>

\* mutant: connect() rebuilds the sliding windows
ConnCheck_ResetWindows ==
    /\ ConnCheckSession
    /\ keyword_hits_window' = [k \in DOMAIN keyword_hits_window |-> <<>>]
    /\ UNCHANGED <<policy, keyword_counts, stored_counts, keyword_log>>

\* mutant: connect() re-seeds the cumulative counts from the counts store
ConnCheck_ReloadCounts ==
    /\ ConnCheckSession
    /\ keyword_counts' = stored_counts
    /\ UNCHANGED <<policy, keyword_hits_window, stored_counts, keyword_log>>

\* connect() touches neither the keyword policy nor the keyword state
ConnCheck ==
    /\ ConnCheckSession
    /\ UNCHANGED kwVars

\* mutant: the stop flag is not looked at after the receive
PostRecvCheck_NoStopCheck ==
    /\ pc = "chk"
    /\ CASE raw.cmd = "ping" -> pc' = "pong" /\ UNCHANGED dispVars
         [] raw.cmd \in {"chat", "donation"} ->
                pc' = "entry" /\ idx' = 1 /\ UNCHANGED <<raw, hit>>
         [] raw.cmd = "malformed" -> pc' = "oexc" /\ UNCHANGED dispVars
         [] OTHER -> pc' = "loop" /\ DropFrame
    /\ UNCHANGED <<ret, connVars, kwVars, stopVars, envVars, histVars, logVars>>

\* run.py 293-320: if self._stop: break; parse the frame and branch on cmd
PostRecvCheck ==
    /\ pc = "chk"
    /\ IF stopFlag
         THEN pc' = "done" /\ DropFrame
         ELSE CASE raw.cmd = "ping" -> pc' = "pong" /\ UNCHANGED dispVars
                [] raw.cmd \in {"chat", "donation"} ->
                       pc' = "entry" /\ idx' = 1 /\ UNCHANGED <<raw, hit>>
                [] raw.cmd = "malformed" -> pc' = "oexc" /\ UNCHANGED dispVars
                [] OTHER -> pc' = "loop" /\ DropFrame
    /\ UNCHANGED <<ret, connVars, kwVars, stopVars, envVars, histVars, logVars>>

\* mutant: the channel id is re-resolved without the PONG having been sent
SendPong_Skip ==
    /\ pc = "pong"
    /\ pc' = "p_fetch"
    /\ UNCHANGED <<ret, connVars, kwVars, dispVars, stopVars, envVars, histVars, logVars>>

\* run.py 301-306: self.sock.send(PONG)
SendPong ==
    /\ pc = "pong"
    /\ IF sock \in open
         THEN /\ pingFrom' = IF pingFrom = sock THEN 0 ELSE pingFrom
              /\ pc' = "p_fetch"
         ELSE /\ pc' = "oexc"
              /\ UNCHANGED pingFrom
    /\ UNCHANGED <<ret, connVars, kwVars, dispVars, stopVars, envVars, needReconnect, logVars>>

\* run.py 308-311: if self.chatChannelId != api.fetch_chatChannelId(...): self.connect()
PingResolve ==
    /\ pc = "p_fetch"
    /\ \/ /\ chatChannelId # curCid
          /\ StartConnect("ping")
       \/ /\ chatChannelId = curCid
          /\ pc' = "loop"
          /\ UNCHANGED <<ret, att, newsock>>
       \/ /\ pc' = "oexc"
          /\ UNCHANGED <<ret, att, newsock>>
    /\ DropFrame
    /\ UNCHANGED <<sock, open, chatChannelId, cidAtt, tokAtt, sid, connCid, bst,
                   kwVars, stopVars, envVars, histVars, logVars>>

\* run.py 322 (loop header): the next entry of the frame, or back to line 277
NextEntry ==
    IF idx < Len(raw.bdy)
      THEN pc' = "entry" /\ idx' = idx + 1 /\ raw' = raw /\ hit' = NoHit
      ELSE pc' = "loop" /\ DropFrame

\* mutant: a hit fires only when it brings the window count up to the threshold
RecordHit_FireOnCrossing(h, ts) ==
    LET window_sec == Get(policy.keyword_windows, h, policy.keyword_window)
        dq  == PopOld(Append(keyword_hits_window[h], ts), ts - MsPerSec * window_sec)
        thr == Get(policy.keyword_thresholds, h, policy.keyword_threshold)
    IN  /\ keyword_counts' = [keyword_counts EXCEPT ![h] = @ + 1]
        /\ keyword_hits_window' = [keyword_hits_window EXCEPT ![h] = dq]
        /\ hitTimes' = [hitTimes EXCEPT ![h] = Append(@, ts)]
        /\ IF Len(dq) = thr
             THEN pc' = "save" /\ hit' = h /\ UNCHANGED <<raw, idx>>
             ELSE NextEntry

\* mutant: every keyword whose rule matches the text is counted
RecordHit_EveryMatch(h, ts) ==
    LET text == raw.bdy[idx].msg
        matched == { k \in policy.keywords :
                       \/ k \in SeqToSet(policy.patterns) /\ PatternSearch(k, text)
                       \/ k \in SeqToSet(policy.containsList) /\ ContainsSearch(k, text) }
    IN  /\ keyword_counts' = [k \in DOMAIN keyword_counts |->
                                 IF k \in matched THEN keyword_counts[k] + 1 ELSE keyword_counts[k]]
        /\ keyword_hits_window' =
               [k \in DOMAIN keyword_hits_window |->
                   IF k \in matched THEN Append(keyword_hits_window[k], ts)
                   ELSE keyword_hits_window[k]]
        /\ hitTimes' = [k \in DOMAIN hitTimes |->
                           IF k \in matched THEN Append(hitTimes[k], ts) ELSE hitTimes[k]]
        /\ NextEntry

\* run.py 362-376: record the hit: cumulative count, sliding window, threshold.
\* Timestamps are kept in milliseconds (msgTime); ts = msgTime / 1000.0 and
\* cutoff = ts - window_sec compare as msgTime and msgTime - 1000 * window_sec.
RecordHit(h, ts) ==
    LET window_sec == Get(policy.keyword_windows, h, policy.keyword_window)
        dq  == PopOld(Append(keyword_hits_window[h], ts), ts - MsPerSec * window_sec)
        thr == Get(policy.keyword_thresholds, h, policy.keyword_threshold)
    IN  /\ keyword_counts' = [keyword_counts EXCEPT ![h] = @ + 1]
        /\ keyword_hits_window' = [keyword_hits_window EXCEPT ![h] = dq]
        /\ hitTimes' = [hitTimes EXCEPT ![h] = Append(@, ts)]
        /\ IF Len(dq) >= thr
             THEN pc' = "save" /\ hit' = h /\ UNCHANGED <<raw, idx>>
             ELSE NextEntry

\* run.py 322-376: one entry of a CHAT / DONATION frame up to the threshold test
ProcessEntry ==
    /\ pc = "entry"
    /\ LET e == raw.bdy[idx]
           h == IF policy.keywords # {} THEN MatchKeyword(policy, e.msg) ELSE NoHit
       IN  IF e.shape \in {"notime", "anon_nomsg"}
             THEN /\ pc' = "oexc"
                  /\ UNCHANGED <<dispVars, keyword_counts, keyword_hits_window, hitTimes>>
             ELSE IF e.shape \in {"noprofile", "nomsg"} \/ h = NoHit
               THEN NextEntry /\ UNCHANGED <<keyword_counts, keyword_hits_window, hitTimes>>
               ELSE RecordHit(h, e.msgTime)
    /\ UNCHANGED <<ret, connVars, policy, stored_counts, keyword_log, stopVars, envVars, histVars,
                   wire, cfgVars, syslog, startFetched>>

\* config_store.py 180-195: _sanitize_counts: keys lower-cased, negative
\* values set to 0
SanitizeCounts(counts) ==
    [k \in { LowerSeq(x) : x \in DOMAIN counts } |->
        LET v == counts[CHOOSE x \in DOMAIN counts : LowerSeq(x) = k]
        IN  IF v < 0 THEN 0 ELSE v]

\* mutant: the counts of the store file are returned as they are
LoadCounts_StoreOnly(stored, legacy) == stored

\* config_store.py 221-245, 266-267: load_counts: the counts of the store
\* file, or the legacy counts file's when the store has none and it has some
LoadCounts(stored, legacy) ==
    IF DOMAIN stored = {} /\ DOMAIN legacy # {} THEN legacy ELSE stored

\* mutant: a failed counts write abandons the rest of the frame
SaveCounts_AbortFrame ==
    /\ pc = "save"
    /\ \/ /\ stored_counts' = SanitizeCounts(keyword_counts)
          /\ pc' = "emit"
          /\ UNCHANGED dispVars
       \/ /\ pc' = "loop" /\ DropFrame
          /\ UNCHANGED stored_counts
    /\ UNCHANGED <<ret, connVars, policy, keyword_counts, keyword_hits_window, keyword_log,
                   stopVars, envVars, histVars, logVars>>

\* mutant: the counts write stores nothing
SaveCounts_WriteNothing ==
    /\ pc = "save"
    /\ \/ pc' = "emit" /\ UNCHANGED dispVars
       \/ NextEntry
    /\ UNCHANGED <<ret, connVars, policy, keyword_counts, keyword_hits_window, keyword_log,
                   stored_counts, stopVars, envVars, histVars, logVars>>

\* run.py 378 and config_store.py 270-273: save_counts(self.keyword_counts);
\* an exception is swallowed at line 393 and the entry loop goes on
SaveCounts ==
    /\ pc = "save"
    /\ \/ /\ stored_counts' = SanitizeCounts(keyword_counts)
          /\ pc' = "emit"
          /\ UNCHANGED dispVars
       \/ /\ NextEntry
          /\ UNCHANGED stored_counts
    /\ UNCHANGED <<ret, connVars, policy, keyword_counts, keyword_hits_window, keyword_log,
                   stopVars, envVars, histVars, logVars>>

\* the DetectionRecord written for the hit (run.py 379-391)
DetectionRecord(h, e) ==
    [keyword |-> h, msgTime |-> e.msgTime, msg |-> e.msg,
     duration |-> IF bst THEN "elapsed" ELSE "-"]

\* the [KEYCOUNT] system-log line of the hit (run.py 381)
KeycountLine(h) ==
    [keyword |-> h,
     window |-> Get(policy.keyword_windows, h, policy.keyword_window),
     count |-> Len(keyword_hits_window[h]),
     threshold |-> Get(policy.keyword_thresholds, h, policy.keyword_threshold)]

\* run.py 391: the line written to the event log for a record, as its
\* characters (instant, channel name and nickname stand as one symbol each)
Tab == "\t"
Newline == "\n"
LogLine(rec) ==
    <<"now", Tab, "channel", Tab>> \o rec.keyword \o <<Tab, "nickname", Tab, rec.duration, Tab>>
        \o rec.msg \o <<Newline>>

\* run.py 379-392: system-log line, then keyword_log.write / flush; writing to
\* the closed file raises ValueError, swallowed at line 393
EmitDetection ==
    /\ pc = "emit"
    /\ syslog' = Append(syslog, KeycountLine(hit))
    /\ IF logOpen
         THEN keyword_log' = Append(keyword_log, DetectionRecord(hit, raw.bdy[idx]))
         ELSE UNCHANGED keyword_log
    /\ NextEntry
    /\ UNCHANGED <<ret, connVars, policy, keyword_counts, keyword_hits_window, stored_counts,
                   stopVars, envVars, histVars, wire, hitTimes, cfgVars,
                   startFetched>>

\* mutant: any exception that reaches the outer handler ends the loop
OuterExcept_AlwaysBreak ==
    /\ pc = "oexc"
    /\ pc' = "done"
    /\ DropFrame
    /\ ret' = "none" /\ newsock' = 0
    /\ UNCHANGED <<sock, open, att, chatChannelId, cidAtt, tokAtt, sid, connCid, bst,
                   kwVars, stopVars, envVars, histVars, logVars>>

\* run.py 396-399: except: if self._stop: break; pass
\* (an exception raised inside connect() has unwound it: its locals are gone)
OuterExcept ==
    /\ pc = "oexc"
    /\ pc' = IF stopFlag THEN "done" ELSE "loop"
    /\ DropFrame
    /\ ret' = "none" /\ newsock' = 0
    /\ UNCHANGED <<sock, open, att, chatChannelId, cidAtt, tokAtt, sid, connCid, bst,
                   kwVars, stopVars, envVars, histVars, logVars>>

\* KeyboardInterrupt raised in the worker (command-line host only):
\* at line 282 it is caught by `except KeyboardInterrupt: break`; outside the
\* outer try (line 277, or inside the handler 396-399) it leaves run() and
\* reaches __main__ (471); anywhere else the bare `except:` of line 396 gets it
InterruptTarget(p) ==
    IF p \in {"recv", "loop", "oexc"} THEN "done" ELSE "oexc"

Interrupt ==
    /\ host = "cli"
    /\ pc # "done"
    /\ pc \in ConnectPcs => att < MaxAttempts
    /\ interrupted' = TRUE
    /\ pc' = InterruptTarget(pc)
    /\ IF pc' = "done" THEN DropFrame ELSE UNCHANGED dispVars
    /\ UNCHANGED <<ret, connVars, kwVars, stopVars, host, curCid, delivered, histVars, logVars>>

\* ------------------------------------------------------- stop() / close()
\* run.py 414-415: stop() is called from the host thread: self._stop = True
StopCall ==
    /\ host = "gui"
    /\ spc \in {"idle", "ret"}
    /\ stopFlag' = TRUE
    /\ stopAtRecv' = (stopAtRecv \/ pc \in {"recv", "recv2"})
    /\ spc' = "s403"
    /\ UNCHANGED <<pc, ret, connVars, kwVars, dispVars, logOpen, envVars, histVars, logVars>>

\* run.py 468-474: __main__ calls close() once run() has returned
MainClose ==
    /\ host = "cli"
    /\ pc = "done"
    /\ spc = "idle"
    /\ spc' = "s403"
    /\ UNCHANGED <<pc, ret, connVars, kwVars, dispVars, stopFlag, logOpen, stopAtRecv,
                   envVars, histVars, logVars>>

\* run.py 403: self._stop = True
CloseSetFlag ==
    /\ spc = "s403"
    /\ stopFlag' = TRUE
    /\ spc' = "s404"
    /\ UNCHANGED <<pc, ret, connVars, kwVars, dispVars, logOpen, stopAtRecv,
                   envVars, histVars, logVars>>

\* run.py 404: if ... self.sock and self.sock.connected
CloseCheckSock ==
    /\ spc = "s404"
    /\ spc' = IF sock \in open THEN "s405" ELSE "s406"
    /\ UNCHANGED <<pc, ret, connVars, kwVars, dispVars, stopFlag, logOpen, stopAtRecv,
                   envVars, histVars, logVars>>

\* run.py 405: self.sock.close()
CloseSock ==
    /\ spc = "s405"
    /\ open' = open \ {sock}
    /\ spc' = "s406"
    /\ UNCHANGED <<pc, ret, sock, newsock, att, chatChannelId, cidAtt, tokAtt, sid, connCid, bst,
                   kwVars, dispVars, stopFlag, logOpen, stopAtRecv, envVars, histVars, logVars>>

\* run.py 406-410: self.keyword_log.close(); close() returns
CloseLog ==
    /\ spc = "s406"
    /\ logOpen' = FALSE
    /\ spc' = "ret"
    /\ UNCHANGED <<pc, ret, connVars, kwVars, dispVars, stopFlag, stopAtRecv,
                   envVars, histVars, logVars>>

\* ------------------------------------------------------------ environment
\* the server or the network drops a connection
ServerDrop ==
    /\ att < MaxAttempts
    /\ \E c \in open : open' = open \ {c}
    /\ UNCHANGED <<pc, ret, sock, newsock, att, chatChannelId, cidAtt, tokAtt, sid, connCid, bst,
                   kwVars, dispVars, stopVars, envVars, histVars, logVars>>

\* the broadcast restarts: the resolver reports a new chat-channel id (an id
\* is never reported again once it has been replaced)
CidChange ==
    /\ att < MaxAttempts
    /\ curCid + 1 \in Cids
    /\ curCid' = curCid + 1
    /\ UNCHANGED <<pc, ret, connVars, kwVars, dispVars, stopVars, host, delivered, interrupted,
                   histVars, logVars>>

\* ------------------------------------------------- the detection engine
\* a session on one connection that stays up, fed CHAT frames: run.py 282,
\* then 293-394 for each frame
EngineInit ==
    /\ host = "gui"
    /\ pc = "loop" /\ ret = "none"
    /\ spc = "idle" /\ interrupted = FALSE
    /\ stopFlag = FALSE
    /\ sock = 1 /\ newsock = 0 /\ open = {1} /\ att = 1
    /\ chatChannelId = 1 /\ cidAtt = 1 /\ tokAtt = 1 /\ sid = 1
    /\ connCid = [c \in 1..MaxAttempts |-> IF c = 1 THEN 1 ELSE 0]
    /\ curCid = 1
    /\ bst = TRUE
    /\ raw = NoFrame /\ idx = 0 /\ hit = NoHit
    /\ policy \in EnginePolicies
    /\ \E s \in EngineSeeds :
          /\ stored_counts = [k \in policy.keywords |-> s]
          /\ keyword_counts = [k \in policy.keywords |-> s]
          /\ seeded = [k \in policy.keywords |-> s]
    /\ keyword_hits_window = [k \in policy.keywords |-> <<>>]
    /\ hitTimes = [k \in policy.keywords |-> <<>>]
    /\ syslog = <<>>
    /\ startFetched = TRUE
    /\ HostIdle
    /\ legacy_counts = <<>>
    /\ raw_config = EngineRawConfig /\ environ = NoEnv
    /\ keyword_log = <<>> /\ logOpen = TRUE
    /\ delivered = 0
    /\ stopAtRecv = FALSE /\ needReconnect = FALSE
    /\ pingFrom = 0
    /\ wire = [c \in 1..MaxAttempts |->
                  IF c = 1 THEN <<ConnectFrame(1), SidResponse(1), RecentFrame(1), HistoryResponse>>
                  ELSE <<>>]

\* run.py 282: self.sock.recv() returns a CHAT frame
RecvChat ==
    /\ pc = "recv"
    /\ sock \in open
    /\ \E f \in EngineFrames :
          /\ delivered + Len(f.bdy) <= MaxHits
          /\ raw' = f
          /\ delivered' = delivered + Len(f.bdy)
    /\ pc' = "chk"
    /\ UNCHANGED <<ret, connVars, kwVars, idx, hit, stopVars, host, curCid, interrupted,
                   histVars, logVars>>

EngineNext ==
    \/ WhileCheck \/ RecvChat \/ PostRecvCheck
    \/ ProcessEntry \/ SaveCounts \/ EmitDetection
    \/ OuterExcept

EngineSpec == EngineInit /\ [][EngineNext]_vars

Worker ==
    \/ WhileCheck \/ RecvError \/ RecvError2 \/ ExceptCheck
    \/ ConnFetchCid \/ ConnFetchToken \/ ConnOpen \/ ConnSendConnect \/ ConnRecvSid
    \/ ConnSendRecent \/ ConnRecvRecent \/ ConnPublish \/ ConnCheck
    \/ PostRecvCheck \/ SendPong \/ PingResolve
    \/ ProcessEntry \/ SaveCounts \/ EmitDetection \/ OuterExcept

\* the steps of a close() that is running (calling stop() is the host's choice)
Closing == MainClose \/ CloseSetFlag \/ CloseCheckSock \/ CloseSock \/ CloseLog

Next ==
    \/ WhileCheck \/ RecvFrame \/ RecvError \/ RecvError2 \/ ExceptCheck
    \/ ConnFetchCid \/ ConnFetchToken \/ ConnOpen \/ ConnSendConnect \/ ConnRecvSid
    \/ ConnSendRecent \/ ConnRecvRecent \/ ConnPublish \/ ConnCheck
    \/ PostRecvCheck \/ SendPong \/ PingResolve
    \/ ProcessEntry \/ SaveCounts \/ EmitDetection \/ OuterExcept
    \/ Interrupt
    \/ StopCall \/ MainClose \/ CloseSetFlag \/ CloseCheckSock \/ CloseSock \/ CloseLog
    \/ ServerDrop \/ CidChange

Spec == Init /\ [][Next]_vars

\* The worker thread and a thread inside close() keep running; a receive on a
\* closed connection raises; the server answers the handshake of a connection
\* that stays open.  Neither a frame in Live (RecvFrame) nor a further call of
\* stop() is promised.
FairSpec == Spec /\ WF_vars(Worker) /\ WF_vars(Closing)

\* ------------------------------------------------ session construction
\* before __init__ has run
NoPolicy ==
    [keywords |-> {}, patterns |-> <<>>, containsList |-> <<>>,
     keyword_threshold |-> 0, keyword_window |-> 0,
     keyword_thresholds |-> <<>>, keyword_windows |-> <<>>]

\* count maps handed to save_counts, contents of the legacy counts file
CountMaps == { <<>>, (KwA :> 2), (KwAUpper :> 7 @@ KwB :> -1) }
LegacyCountSets == { <<>>, (KwA :> 3) }

TabText == <<"a", "\t", "x">>
LineText == <<"a", "\n", "x">>
BuildTexts == Texts \cup {TabText, LineText}

BuildEntries == { [shape |-> "ok", msg |-> t, msgTime |-> 0] : t \in BuildTexts }

BuildFrames == { [cmd |-> "chat", bdy |-> <<e>>] : e \in BuildEntries }

BuildInit ==
    /\ host = "gui"
    /\ pc = "init" /\ ret = "none"
    /\ spc = "idle" /\ interrupted = FALSE
    /\ stopFlag = FALSE
    /\ sock = 1 /\ newsock = 0 /\ open = {1} /\ att = 1
    /\ chatChannelId = 1 /\ cidAtt = 1 /\ tokAtt = 1 /\ sid = 1
    /\ connCid = [c \in 1..MaxAttempts |-> IF c = 1 THEN 1 ELSE 0]
    /\ curCid = 1
    /\ bst = TRUE
    /\ raw = NoFrame /\ idx = 0 /\ hit = NoHit
    /\ policy = NoPolicy
    /\ raw_config \in RawConfigs
    /\ environ \in Environs
    /\ legacy_counts \in LegacyCountSets
    /\ stored_counts = <<>>
    /\ keyword_counts = <<>> /\ seeded = <<>>
    /\ keyword_hits_window = <<>>
    /\ hitTimes = <<>>
    /\ syslog = <<>>
    /\ startFetched = TRUE
    /\ HostIdle
    /\ keyword_log = <<>> /\ logOpen = TRUE
    /\ delivered = 0
    /\ stopAtRecv = FALSE /\ needReconnect = FALSE
    /\ pingFrom = 0
    /\ wire = [c \in 1..MaxAttempts |->
                  IF c = 1 THEN <<ConnectFrame(1), SidResponse(1), RecentFrame(1), HistoryResponse>>
                  ELSE <<>>]

\* config_store.py 270-273: save_counts(m), called before the session is
\* constructed (an earlier session, or any other writer of the store)
SaveCountsCall(m) ==
    /\ pc = "init"
    /\ stored_counts' = SanitizeCounts(m)
    /\ UNCHANGED <<pc, ret, connVars, policy, keyword_counts, keyword_hits_window, keyword_log,
                   dispVars, stopVars, envVars, histVars, logVars>>

\* run.py 19-161: __init__ builds the policy from load_config() and the
\* environment, and seeds the counters from load_counts(); the first
\* connection (176-183) is taken as made
Construct ==
    /\ pc = "init"
    /\ pc' = "loop"
    /\ policy' \in BuiltPolicies(raw_config, environ)
    /\ keyword_counts' =
          [k \in policy'.keywords |-> Get(LoadCounts(stored_counts, legacy_counts), k, 0)]
    /\ seeded' = keyword_counts'
    /\ keyword_hits_window' = [k \in policy'.keywords |-> <<>>]
    /\ hitTimes' = [k \in policy'.keywords |-> <<>>]
    /\ UNCHANGED <<ret, connVars, stored_counts, keyword_log, dispVars, stopVars, envVars,
                   histVars, wire, raw_config, environ, legacy_counts, hostVars, syslog,
                   startFetched>>

\* run.py 282: self.sock.recv() returns a CHAT frame
BuildRecv ==
    /\ pc = "recv"
    /\ sock \in open
    /\ \E f \in BuildFrames :
          /\ delivered + Len(f.bdy) <= MaxEntries
          /\ raw' = f
          /\ delivered' = delivered + Len(f.bdy)
    /\ pc' = "chk"
    /\ UNCHANGED <<ret, connVars, kwVars, idx, hit, stopVars, host, curCid, interrupted,
                   histVars, logVars>>

BuildNext ==
    \/ \E m \in CountMaps : SaveCountsCall(m)
    \/ Construct
    \/ WhileCheck \/ BuildRecv \/ PostRecvCheck
    \/ ProcessEntry \/ SaveCounts \/ EmitDetection

BuildSpec == BuildInit /\ [][BuildNext]_vars

\* ------------------------------------------------- GUI host: the handlers
\* gui.py 409-433 and config_store.py 260-261: App.start, up to the read of
\* the store file inside save_config(config)
App_start_read ==
    /\ gpc = "idle"
    /\ startEnabled
    /\ nsess < MaxSessions
    /\ \E cfg \in HostConfigs : gcfg' = cfg
    /\ gtmp' = store
    /\ gpc' = "save_config"
    /\ UNCHANGED <<store, nsess, wpc, wstop, wopen, wkeys, wcounts, wtmp, chat_obj,
                   startEnabled, stopEnabled, pendingConnected, pendingAutoStop, stopRan,
                   hostFrames, OtherVars>>

\* config_store.py 262-263 and gui.py 434-468: save_config writes the file
\* (the data it read, with the new config); the session thread is started
\* and both buttons are disabled
App_start ==
    /\ gpc = "save_config"
    /\ store' = [config |-> gcfg, counts |-> gtmp.counts]
    /\ nsess' = nsess + 1
    /\ wpc' = [wpc EXCEPT ![nsess + 1] = "new"]
    /\ startEnabled' = FALSE /\ stopEnabled' = FALSE
    /\ gpc' = "idle" /\ gtmp' = NoData /\ gcfg' = {}
    /\ UNCHANGED <<wstop, wopen, wkeys, wcounts, wtmp, chat_obj, pendingConnected,
                   pendingAutoStop, stopRan, hostFrames, OtherVars>>

\* gui.py 403-407: on_connected, queued by UIHandler.emit (gui.py 218-222)
App_on_connected ==
    /\ gpc = "idle"
    /\ pendingConnected
    /\ pendingConnected' = FALSE
    /\ stopEnabled' = TRUE
    /\ UNCHANGED <<store, nsess, wpc, wstop, wopen, wkeys, wcounts, wtmp, gpc, gtmp, gcfg,
                   chat_obj, startEnabled, pendingAutoStop, stopRan, hostFrames, OtherVars>>

\* gui.py 470-483 with run.py 401-416: if self.chat_obj: self.chat_obj.stop()
\* (the flag is set, the socket closed if connected); Start is enabled again
StopHandler ==
    /\ IF chat_obj # 0
         THEN /\ wstop' = [wstop EXCEPT ![chat_obj] = TRUE]
              /\ wopen' = [wopen EXCEPT ![chat_obj] = FALSE]
         ELSE UNCHANGED <<wstop, wopen>>
    /\ startEnabled' = TRUE /\ stopEnabled' = FALSE
    /\ stopRan' = stopRan \cup {nsess}
    /\ UNCHANGED <<store, nsess, wpc, wkeys, wcounts, wtmp, gpc, gtmp, gcfg, chat_obj,
                   pendingConnected, hostFrames, OtherVars>>

\* the user presses Stop
App_stop ==
    /\ gpc = "idle"
    /\ stopEnabled
    /\ StopHandler
    /\ UNCHANGED pendingAutoStop

\* gui.py 572-576: _auto_stop_after_error enables and invokes the Stop button
App_auto_stop ==
    /\ gpc = "idle"
    /\ pendingAutoStop
    /\ pendingAutoStop' = FALSE
    /\ StopHandler

\* ------------------------------------------- GUI host: a session's thread
\* run.py 26-161: __init__ reads the config and the counts of the store
Backend_load(s) ==
    /\ wpc[s] = "new"
    /\ wkeys' = [wkeys EXCEPT ![s] = store.config]
    /\ wcounts' = [wcounts EXCEPT ![s] = [k \in store.config |-> Get(store.counts, k, 0)]]
    /\ wpc' = [wpc EXCEPT ![s] = "connect"]
    /\ UNCHANGED <<store, nsess, wstop, wopen, wtmp, gpc, gtmp, gcfg, chat_obj, startEnabled,
                   stopEnabled, pendingConnected, pendingAutoStop, stopRan, hostFrames,
                   OtherVars>>

\* run.py 176-183, 186-238: the first connect() inside __init__.  On success
\* the 'connected' line is logged (236) and UIHandler.emit queues
\* on_connected; a failure leaves run_backend through its handler (gui.py
\* 452-457), which queues _auto_stop_after_error
Backend_connect(s) ==
    /\ wpc[s] = "connect"
    /\ \/ /\ wopen' = [wopen EXCEPT ![s] = TRUE]
          /\ pendingConnected' = TRUE
          /\ wpc' = [wpc EXCEPT ![s] = "ctor_end"]
          /\ UNCHANGED pendingAutoStop
       \/ /\ pendingAutoStop' = TRUE
          /\ wpc' = [wpc EXCEPT ![s] = "dead"]
          /\ UNCHANGED <<wopen, pendingConnected>>
    /\ UNCHANGED <<store, nsess, wstop, wkeys, wcounts, wtmp, gpc, gtmp, gcfg, chat_obj,
                   startEnabled, stopEnabled, stopRan, hostFrames, OtherVars>>

\* gui.py 450: __init__ has returned: self.chat_obj = <the session>
Backend_assign(s) ==
    /\ wpc[s] = "ctor_end"
    /\ chat_obj' = s
    /\ wpc' = [wpc EXCEPT ![s] = "loop"]
    /\ UNCHANGED <<store, nsess, wstop, wopen, wkeys, wcounts, wtmp, gpc, gtmp, gcfg,
                   startEnabled, stopEnabled, pendingConnected, pendingAutoStop, stopRan,
                   hostFrames, OtherVars>>

\* run.py 277: while not self._stop
Backend_while(s) ==
    /\ wpc[s] = "loop"
    /\ wpc' = [wpc EXCEPT ![s] = IF wstop[s] THEN "done" ELSE "recv"]
    /\ UNCHANGED <<store, nsess, wstop, wopen, wkeys, wcounts, wtmp, gpc, gtmp, gcfg, chat_obj,
                   startEnabled, stopEnabled, pendingConnected, pendingAutoStop, stopRan,
                   hostFrames, OtherVars>>

\* run.py 282 / 291, 293, 322-376: a chat frame arrives; if self._stop: break;
\* otherwise its message hits one of the session's keywords (threshold 1) and
\* is counted, or hits none
Backend_recv(s) ==
    /\ wpc[s] \in {"recv", "recv2"}
    /\ wopen[s]
    /\ hostFrames < MaxHostFrames
    /\ hostFrames' = hostFrames + 1
    /\ IF wstop[s]
         THEN /\ wpc' = [wpc EXCEPT ![s] = "done"]
              /\ UNCHANGED wcounts
         ELSE \/ \E k \in wkeys[s] :
                   /\ wcounts' = [wcounts EXCEPT ![s][k] = @ + 1]
                   /\ wpc' = [wpc EXCEPT ![s] = "save_read"]
              \/ /\ wpc' = [wpc EXCEPT ![s] = "loop"]
                 /\ UNCHANGED wcounts
    /\ UNCHANGED <<store, nsess, wstop, wopen, wkeys, wtmp, gpc, gtmp, gcfg, chat_obj,
                   startEnabled, stopEnabled, pendingConnected, pendingAutoStop, stopRan,
                   OtherVars>>

\* run.py 282 -> 287-289 and 291 -> 396-399: recv() raises on a connection
\* that is not open
Backend_recv_error(s) ==
    /\ wpc[s] \in {"recv", "recv2"}
    /\ ~wopen[s]
    /\ wpc' = [wpc EXCEPT ![s] = IF wstop[s] THEN "done"
                                 ELSE IF wpc[s] = "recv" THEN "reconn" ELSE "loop"]
    /\ UNCHANGED <<store, nsess, wstop, wopen, wkeys, wcounts, wtmp, gpc, gtmp, gcfg, chat_obj,
                   startEnabled, stopEnabled, pendingConnected, pendingAutoStop, stopRan,
                   hostFrames, OtherVars>>

\* run.py 290, 186-238: connect() from the except branch: the new socket
\* becomes self.sock and the 'connected' line is logged; or connect() raises
\* into the outer handler (396-399)
Backend_reconnect(s) ==
    /\ wpc[s] = "reconn"
    /\ \/ /\ wopen' = [wopen EXCEPT ![s] = TRUE]
          /\ pendingConnected' = TRUE
          /\ wpc' = [wpc EXCEPT ![s] = "recv2"]
       \/ /\ wpc' = [wpc EXCEPT ![s] = IF wstop[s] THEN "done" ELSE "loop"]
          /\ UNCHANGED <<wopen, pendingConnected>>
    /\ UNCHANGED <<store, nsess, wstop, wkeys, wcounts, wtmp, gpc, gtmp, gcfg, chat_obj,
                   startEnabled, stopEnabled, pendingAutoStop, stopRan, hostFrames, OtherVars>>

\* run.py 378 and config_store.py 270-271: save_counts reads the store file
Backend_save_read(s) ==
    /\ wpc[s] = "save_read"
    /\ wtmp' = [wtmp EXCEPT ![s] = store]
    /\ wpc' = [wpc EXCEPT ![s] = "save_write"]
    /\ UNCHANGED <<store, nsess, wstop, wopen, wkeys, wcounts, gpc, gtmp, gcfg, chat_obj,
                   startEnabled, stopEnabled, pendingConnected, pendingAutoStop, stopRan,
                   hostFrames, OtherVars>>

\* config_store.py 272-273: save_counts writes the data it read, with the
\* session's counts
Backend_save_write(s) ==
    /\ wpc[s] = "save_write"
    /\ store' = [config |-> wtmp[s].config, counts |-> wcounts[s]]
    /\ wtmp' = [wtmp EXCEPT ![s] = NoData]
    /\ wpc' = [wpc EXCEPT ![s] = "loop"]
    /\ UNCHANGED <<nsess, wstop, wopen, wkeys, wcounts, gpc, gtmp, gcfg, chat_obj,
                   startEnabled, stopEnabled, pendingConnected, pendingAutoStop, stopRan,
                   hostFrames, OtherVars>>

\* the server or the network drops a session's connection
NetDrop(s) ==
    /\ wopen[s]
    /\ wpc[s] \in LoopPcs
    /\ wopen' = [wopen EXCEPT ![s] = FALSE]
    /\ UNCHANGED <<store, nsess, wpc, wstop, wkeys, wcounts, wtmp, gpc, gtmp, gcfg, chat_obj,
                   startEnabled, stopEnabled, pendingConnected, pendingAutoStop, stopRan,
                   hostFrames, OtherVars>>

\* the steps a session thread takes by itself
BackendStep(s) ==
    \/ Backend_load(s) \/ Backend_connect(s) \/ Backend_assign(s) \/ Backend_while(s)
    \/ Backend_recv_error(s) \/ Backend_reconnect(s)
    \/ Backend_save_read(s) \/ Backend_save_write(s)

\* the handlers the Tk main loop runs without the user
QueuedHandler == App_start \/ App_on_connected \/ App_auto_stop

HostInit == Init /\ host = "gui"

HostNext ==
    \/ App_start_read \/ App_start \/ App_on_connected \/ App_stop \/ App_auto_stop
    \/ \E s \in Sessions :
          \/ Backend_load(s) \/ Backend_connect(s) \/ Backend_assign(s) \/ Backend_while(s)
          \/ Backend_recv(s) \/ Backend_recv_error(s) \/ Backend_reconnect(s)
          \/ Backend_save_read(s) \/ Backend_save_write(s)
          \/ NetDrop(s)

HostSpec == HostInit /\ [][HostNext]_vars

\* every session thread keeps running and the Tk main loop runs its queued
\* callbacks; neither a chat frame nor a press of a button is promised
HostFairSpec ==
    HostSpec /\ (\A s \in Sessions : WF_vars(BackendStep(s))) /\ WF_vars(QueuedHandler)

\* the policy of a session is one that its stored configuration and its
\* environment build
PolicyBuilt == pc # "init" => policy \in BuiltPolicies(raw_config, environ)

TypeOK ==
    /\ pc \in {"loop", "recv", "recv2", "exc", "chk", "pong", "p_fetch", "entry", "save",
               "emit", "oexc", "done", "init"} \cup ConnectPcs
    /\ att \in 1..MaxAttempts
    /\ sock \in 1..MaxAttempts
    /\ open \subseteq 1..MaxAttempts

\* the attempt bound never blocks a connect() the code would run
NoArtificialBlock ==
    /\ (pc = "exc" /\ ~stopFlag) => att < MaxAttempts
    /\ (pc = "p_fetch" /\ chatChannelId # curCid) => att < MaxAttempts

\* ==================================================================== claims

\* C1: once stop() has set the stop flag, the worker sends no CONNECT frame
\* and opens no new connection, in every interleaving of stop() with the loop.
C1_NoConnectAfterStop ==
    [][stopFlag => (open' \subseteq open /\ connCid' = connCid)]_vars

\* C2: after stop() is called the receive loop eventually exits, without any
\* further frame being delivered in Live (closing a connection unblocks the
\* receive blocked on it; frames in Live are not promised by FairSpec).
C2_StopConverges == stopFlag ~> (pc = "done")

\* C3: if stop() is called while the worker is blocked in receive, no
\* DetectionRecord is appended from then on and the loop terminates: the
\* worker can only stay blocked, see the receive fail or return, and leave at
\* the next stop-flag check, and once stop() has returned it is not blocked on
\* an open connection; and no DetectionRecord is appended after stop() has
\* returned.
BlockedOrLeaving == {"recv", "recv2", "exc", "chk", "oexc", "done"}

C3_NoRecordAfterStop ==
    [][ /\ (stopAtRecv \/ spc = "ret") => keyword_log' = keyword_log
        /\ stopAtRecv' =>
              /\ pc' \in BlockedOrLeaving
              /\ (spc' = "ret" /\ pc' \in {"recv", "recv2"}) => sock' \notin open'
      ]_vars

C3_Witness == stopAtRecv /\ spc = "ret" /\ pc = "done" /\ keyword_log # <<>>

\* C4: with no stop request (and no interrupt), a receive failure starts a
\* fresh connect cycle; a failed connect attempt never ends the loop; until an
\* attempt succeeds every receive fails again (so connect is retried); a
\* successful attempt resumes receiving on the new, open connection.
C4_ReconnectRetried ==
    [][ /\ (pc = "exc" /\ ~stopFlag /\ pc' # pc /\ ~interrupted')
            => (pc' = "c_cid" /\ att' = att + 1)
        /\ (pc \in (ConnectPcs \cup {"oexc"}) /\ ~stopFlag /\ ~interrupted')
            => pc' # "done"
        /\ (pc = "c_chk" /\ ret = "recv" /\ pc' \notin {"c_chk", "oexc"})
            => (pc' = "recv2" /\ sock' = att' /\ sock' \in open' /\ ~needReconnect')
        /\ (needReconnect' /\ ~interrupted' /\ pc' \in {"loop", "recv"}) => sock' \notin open'
      ]_vars

C4_Witness ==
    /\ pc = "recv2" /\ ~stopFlag /\ ~interrupted
    /\ att = 3 /\ sock = 3 /\ sock \in open
    /\ connCid[2] = 0 /\ open = {3}

\* C5: a KeyboardInterrupt delivered at any point of the receive loop breaks
\* the loop (the worker leaves run()); it is never swallowed.
C5_InterruptBreaksLoop == [][(~interrupted /\ interrupted') => pc' = "done"]_vars

\* C6 (as stated): when a reconnect after a receive failure completes, the
\* sliding window of every keyword is empty.
C6_WindowsEmptyAfterReconnect ==
    [][(pc = "c_chk" /\ pc' = "recv2")
         => \A k \in DOMAIN keyword_hits_window' : keyword_hits_window'[k] = <<>>]_vars

\* C6 (amended): a reconnect after a receive failure leaves the sliding window
\* of every keyword as it was when the receive failed.
C6_WindowsKeptAcrossReconnect ==
    [][(pc \in (ConnectPcs \cup {"exc"})) => keyword_hits_window' = keyword_hits_window]_vars

C6_Witness ==
    /\ pc = "recv2" /\ sock = att /\ sock \in open
    /\ \E k \in DOMAIN keyword_hits_window : keyword_hits_window[k] # <<>>

\* C7: no step changes the keyword policy, and no step of a reconnect (after
\* a receive failure or after a channel-id change) changes a cumulative count.
C7_PolicyAndCountsKept ==
    [][ /\ policy' = policy
        /\ (pc \in (ConnectPcs \cup {"exc", "p_fetch"})) => keyword_counts' = keyword_counts
      ]_vars

C7_Witness ==
    /\ pc = "loop" /\ att > 1 /\ sock = att /\ open = {1, sock}
    /\ chatChannelId = 2 /\ connCid[sock] = 2
    /\ \E k \in DOMAIN keyword_counts : keyword_counts[k] # stored_counts[k]

\* C8: when, on a PING, the resolver reports a chat-channel id different from
\* the one the open connection was established with, the session reconnects.
C8_PingReconnectsOnStaleId ==
    [][(pc = "p_fetch" /\ pc' \notin {"p_fetch", "oexc"} /\ ~interrupted'
          /\ connCid[sock] # curCid)
         => pc' = "c_cid"]_vars

\* C9: outside connect(), the regenerated fields (chatChannelId, tokens, sid,
\* socket) all come from one and the same connect attempt.
C9_FieldsWholesale ==
    pc \notin ConnectPcs => (cidAtt = tokAtt /\ tokAtt = sid /\ sid = sock)

\* C10 (as stated): every PING received is answered with a PONG before the
\* channel-id re-resolution, before any reconnect and before the next receive
\* (here even when no interrupt is ever delivered).
C10_PingAlwaysAnswered ==
    (~interrupted /\ pingFrom # 0) => pc \notin ({"p_fetch", "recv", "recv2"} \cup ConnectPcs)

\* C10 (amended): a dispatched PING is answered with a PONG on its own
\* connection before the channel-id re-resolution and before the reconnect it
\* may trigger; the worker gets to a further receive (or connect) without the
\* PONG only when the PONG send raised because that connection had closed, or
\* a KeyboardInterrupt was caught by the outer handler first.
C10_PongBeforeResolve ==
    /\ (pc = "p_fetch" \/ (pc \in ConnectPcs /\ ret = "ping")) => pingFrom = 0
    /\ (pingFrom # 0 /\ pc \in ({"loop", "recv", "recv2", "exc"} \cup ConnectPcs))
          => (pingFrom \notin open \/ interrupted)

C10_Witness == pc = "p_fetch" /\ raw.cmd = "ping" /\ pingFrom = 0 /\ sock \in open

\* C11: on every connection the handshake frames are ordered: CONNECT first;
\* REQUEST_RECENT_CHAT (recentMessageCount 50) only after the response with
\* the session id, and carrying exactly that id; the connection is published
\* to the receive loop only after the response to the history request.
HandshakeOrdered(w) ==
    /\ Len(w) <= 4
    /\ Len(w) >= 1 => w[1].ev = "connect"
    /\ Len(w) >= 2 => w[2].ev = "sid"
    /\ Len(w) >= 3 => w[3] = [ev |-> "recent", arg |-> w[2].arg, n |-> 50]
    /\ Len(w) >= 4 => w[4].ev = "history"

C11_HandshakeOrdered ==
    /\ \A c \in DOMAIN wire : HandshakeOrdered(wire[c])
    /\ Len(wire[sock]) = 4

C11_Witness ==
    /\ pc = "recv2" /\ sock = 2 /\ sock \in open
    /\ wire[2] = <<ConnectFrame(2), SidResponse(2), RecentFrame(2), HistoryResponse>>

\* ------------------------------------------- claims on the detection engine
WindowOf(k)    == Get(policy.keyword_windows, k, policy.keyword_window)
ThresholdOf(k) == Get(policy.keyword_thresholds, k, policy.keyword_threshold)

NonDecreasing(s) == \A i, j \in DOMAIN s : i < j => s[i] <= s[j]

\* number of the timestamps of s that lie in [t - w, t], t the last one (ms)
CountInWindow(s, w) ==
    LET t == s[Len(s)]
    IN  Cardinality({ i \in DOMAIN s : t - 1000 * w <= s[i] /\ s[i] <= t })

\* C12: for a keyword whose hits arrived with non-decreasing timestamps, the
\* window count after recording a hit at t is the number of hits of that
\* keyword recorded in the session with timestamp in [t - w, t], bound
\* included; every [KEYCOUNT] line reports a count of that kind.
C12_WindowCount ==
    \A k \in DOMAIN hitTimes :
        (hitTimes[k] # <<>> /\ NonDecreasing(hitTimes[k]))
            => Len(keyword_hits_window[k]) = CountInWindow(hitTimes[k], WindowOf(k))

\* hits of "win" (window 15 s, threshold 2) at 10, 20, 30 s: the hits at 20
\* and at 30 each see count 2
C12_Witness ==
    /\ hitTimes[KwWin] = <<10000, 20000, 30000>>
    /\ keyword_hits_window[KwWin] = <<20000, 30000>>
    /\ Len(syslog) = 2
    /\ \A i \in 1..2 : syslog[i].keyword = KwWin /\ syslog[i].count = 2

\* C13: a recorded hit enters the firing branch (counts write, then the
\* detection) if and only if the window count after eviction is >= the
\* keyword's threshold, whatever fired before (no cooldown); the completed
\* counts write stores the cumulative counts, and a detection is emitted only
\* for a hit at or above its threshold.
C13_FiresIffThreshold ==
    [][ /\ \A k \in DOMAIN hitTimes :
              hitTimes'[k] # hitTimes[k]
                 => /\ (pc' = "save") <=> (Len(keyword_hits_window'[k]) >= ThresholdOf(k))
                    /\ (pc' = "save") => hit' = k
        /\ (pc = "save" /\ pc' = "emit") => stored_counts' = keyword_counts
        /\ (pc = "emit" /\ pc' # "emit")
              => /\ Len(keyword_hits_window[hit]) >= ThresholdOf(hit)
                 /\ syslog' = Append(syslog, KeycountLine(hit))
                 /\ logOpen => Len(keyword_log') = Len(keyword_log) + 1
        /\ (syslog' # syslog \/ keyword_log' # keyword_log) => pc = "emit"
      ]_vars

\* two hits of "a" (threshold 1) in a row both fire, and "win" (threshold 2)
\* does not fire on its first hit
C13_Witness ==
    /\ Len(keyword_log) = 2
    /\ keyword_log[1].keyword = KwA /\ keyword_log[2].keyword = KwA
    /\ hitTimes[KwA] = <<0, 0>>
    /\ Len(hitTimes[KwWin]) = 1

\* C14: every firing hit whose counts write completed gets exactly one
\* DetectionRecord and exactly one [KEYCOUNT] system-log line (behaviours
\* without KeyboardInterrupt).
C14_OneRecordPerFiringHit ==
    [][ (pc = "emit" /\ pc' # "emit" /\ ~interrupted')
           => /\ Len(syslog') = Len(syslog) + 1
              /\ Len(keyword_log') = Len(keyword_log) + 1 ]_vars

\* C15: when the counts write raises, the cumulative counts and the windows
\* stay as the hit left them, the next entry of the frame is processed, and
\* after the last entry the loop goes on.
C15_FailureKeepsStateAndGoesOn ==
    [][ (pc = "save" /\ pc' \notin {"save", "emit"})
           => /\ keyword_counts' = keyword_counts
              /\ keyword_hits_window' = keyword_hits_window
              /\ hitTimes' = hitTimes
              /\ stored_counts' = stored_counts
              /\ IF idx < Len(raw.bdy)
                   THEN pc' = "entry" /\ idx' = idx + 1 /\ raw' = raw
                   ELSE pc' = "loop" ]_vars

\* the write for the first entry ("a", threshold 1) failed: the count is ahead
\* of the store and the second entry of the frame is being processed
C15_Witness ==
    /\ pc = "entry" /\ idx = 2
    /\ hitTimes[KwA] # <<>>
    /\ keyword_counts[KwA] = 6 /\ stored_counts[KwA] = 5
    /\ syslog = <<>>

\* C16 (as stated): once a keyword's single hit of the session has been
\* processed, the persisted count of that keyword is its seed plus one.
C16_OneHitPersisted ==
    \A k \in DOMAIN hitTimes :
        (Len(hitTimes[k]) = 1 /\ pc \in {"loop", "recv"})
            => stored_counts[k] = seeded[k] + 1

\* C16 (amended): the persisted count is seed + 1 once the hit has fired and
\* its counts write completed; as long as no counts write has completed the
\* persisted counts are the seed, while the in-memory count is the seed plus
\* the hits recorded; the persisted count is never ahead of the in-memory one.
C16_PersistedWhenFired ==
    /\ pc = "emit" => stored_counts = keyword_counts
    /\ (pc = "emit" /\ Len(hitTimes[hit]) = 1) => stored_counts[hit] = seeded[hit] + 1
    /\ (pc # "emit" /\ syslog = <<>>) => stored_counts = seeded
    /\ \A k \in DOMAIN keyword_counts :
          /\ keyword_counts[k] = seeded[k] + Len(hitTimes[k])
          /\ seeded[k] <= stored_counts[k] /\ stored_counts[k] <= keyword_counts[k]

C16_Witness ==
    /\ pc = "emit" /\ hit = KwA
    /\ Len(hitTimes[KwA]) = 1
    /\ seeded[KwA] = 5 /\ stored_counts[KwA] = 6

\* C17: an entry whose text matches at least one exact rule and at least one
\* contains rule is attributed to an exact keyword, never to a contains one.
C17_ExactBeforeContains ==
    [][ pc = "entry" =>
          LET text == raw.bdy[idx].msg
              exact == SeqToSet(policy.patterns)
              cont  == SeqToSet(policy.containsList)
          IN  ( /\ \E k \in exact : PatternSearch(k, text)
                /\ \E k \in cont : ContainsSearch(k, text) )
                 => /\ \E k \in exact : hitTimes'[k] # hitTimes[k]
                    /\ \A k \in cont : hitTimes'[k] = hitTimes[k] ]_vars

\* "we win now" matches the exact rule "win" and the contains rule "in"
C17_Witness ==
    /\ pc = "loop" /\ delivered = 1
    /\ hitTimes[KwWin] = <<0>> /\ hitTimes[KwIn] = <<>> /\ hitTimes[KwA] = <<>>

\* C18: an entry matching several exact rules is attributed to the one
\* registered earliest in the merged configuration.
C18_EarliestRegisteredWins ==
    [][ pc = "entry" =>
          LET first == FirstPattern(ExactRegistered(EngineConfig), raw.bdy[idx].msg)
          IN  first # NoHit => hitTimes'[first] # hitTimes[first] ]_vars

\* C19: processing one entry increments the cumulative count of at most one
\* keyword, by exactly 1, and appends at most one timestamp to the window of
\* that keyword only (eviction aside); nothing else changes a count or a window.
C19_AtMostOneKeyword ==
    [][ LET changed == { k \in DOMAIN keyword_counts :
                            \/ keyword_counts'[k] # keyword_counts[k]
                            \/ keyword_hits_window'[k] # keyword_hits_window[k] }
        IN  /\ Cardinality(changed) <= 1
            /\ changed # {} => pc = "entry"
            /\ \A k \in changed :
                  /\ keyword_counts'[k] = keyword_counts[k] + 1
                  /\ \E n \in 1..(Len(keyword_hits_window[k]) + 1) :
                        keyword_hits_window'[k] =
                            SubSeq(Append(keyword_hits_window[k], raw.bdy[idx].msgTime),
                                   n, Len(keyword_hits_window[k]) + 1) ]_vars

\* "a win" matches the rules "a", "win" and "in": only "a" was counted
C19_Witness ==
    /\ pc = "loop" /\ delivered = 1
    /\ keyword_counts[KwA] = 6 /\ keyword_counts[KwWin] = 5 /\ keyword_counts[KwIn] = 5
    /\ keyword_hits_window[KwA] = <<0>>
    /\ keyword_hits_window[KwWin] = <<>> /\ keyword_hits_window[KwIn] = <<>>

\* the keyword occurs in the text, compared case-insensitively, at a place
\* with no word character right before it and none right after it
WordOccurrence(kw, text) ==
    \E i \in 1..(Len(text) - Len(kw) + 1) :
        /\ LowerSeq(SubSeq(text, i, i + Len(kw) - 1)) = kw
        /\ i > 1 => text[i - 1] = " "
        /\ i + Len(kw) <= Len(text) => text[i + Len(kw)] = " "

\* C20: an entry is attributed to an exact keyword if and only if some exact
\* keyword has such an occurrence in its text, and then the attributed keyword
\* has one: "win" matches "we win now" and "WIN" but not "winner".
C20_WordBoundaryMatch ==
    [][ pc = "entry" =>
          LET text  == raw.bdy[idx].msg
              exact == SeqToSet(policy.patterns)
          IN  /\ (\E k \in exact : WordOccurrence(k, text))
                    <=> (\E k \in exact : hitTimes'[k] # hitTimes[k])
              /\ \A k \in exact : hitTimes'[k] # hitTimes[k] => WordOccurrence(k, text)
              /\ text \in {WeWinNow, WinUpper} => hitTimes'[KwWin] # hitTimes[KwWin]
              /\ text = Winner => hitTimes'[KwWin] = hitTimes[KwWin] ]_vars

\* "winner" went to the contains rule "in"; "we win now" and "WIN" to "win"
C20_Witness ==
    /\ hitTimes[KwIn] # <<>> /\ Len(hitTimes[KwWin]) = 2
    /\ \E i, j \in DOMAIN keyword_log :
          /\ keyword_log[i].keyword = KwIn /\ keyword_log[i].msg = Winner
          /\ keyword_log[j].keyword = KwWin /\ keyword_log[j].msg = WinUpper


\* C23: a failed fetch of the broadcast start instant during a connect or
\* reconnect is not fatal: the connect cycle that finds its socket connected
\* returns to the loop whatever the fetch did; after a failed fetch the start
\* instant is unset, and every detection record written until the next
\* successful fetch carries "-" as its elapsed duration
C23_StartFetchBestEffort ==
    [][ /\ (ConnCheckSession /\ sock \in open) => pc' \in {"recv2", "loop"}
        /\ ~startFetched' => ~bst'
        /\ (Len(keyword_log') = Len(keyword_log) + 1 /\ ~startFetched)
            => keyword_log'[Len(keyword_log')].duration = "-"
        /\ (Len(keyword_log') = Len(keyword_log) + 1 /\ startFetched)
            => keyword_log'[Len(keyword_log')].duration = "elapsed"
      ]_vars

\* a record is written with "-" after a reconnect whose fetch failed, the
\* first connection's fetch having succeeded
C23_Witness ==
    /\ att > 1 /\ ~startFetched /\ pc \in {"loop", "recv", "recv2"}
    /\ keyword_log # <<>>
    /\ keyword_log[Len(keyword_log)].duration = "-"

\* the lower-cased keyword is a substring of the lower-cased text
SubstringLower(kw, text) ==
    \E i \in 1..(Len(text) - Len(kw) + 1) :
        SubSeq(LowerSeq(text), i, i + Len(kw) - 1) = LowerSeq(kw)

\* C21: a contains rule matches a message iff its lower-cased keyword is a
\* substring of the lower-cased text, token boundaries playing no part: a well
\* formed entry that no exact rule matches is counted for the first contains
\* keyword that is such a substring, and for none when there is none
C21_ContainsIsSubstring ==
    [][ (ProcessEntry /\ raw.bdy[idx].shape = "ok"
           /\ \A k \in SeqToSet(policy.patterns) : ~PatternSearch(k, raw.bdy[idx].msg))
        => LET text == raw.bdy[idx].msg
               subs == { i \in DOMAIN policy.containsList :
                            SubstringLower(policy.containsList[i], text) }
           IN  IF subs = {}
                 THEN keyword_counts' = keyword_counts
                 ELSE LET first == policy.containsList[CHOOSE i \in subs : \A j \in subs : i <= j]
                      IN  keyword_counts' = [keyword_counts EXCEPT ![first] = @ + 1]
      ]_vars

\* "winner" and "WINner" have both been counted for the contains keyword "in"
C21_Witness ==
    /\ Len(hitTimes[KwIn]) >= 2
    /\ keyword_counts[KwIn] = 7
    /\ \E i, j \in DOMAIN keyword_log :
          /\ keyword_log[i].keyword = KwIn /\ keyword_log[i].msg = Winner
          /\ keyword_log[j].keyword = KwIn /\ keyword_log[j].msg = WinnerMixed

\* C22: an entry of an unexpected shape causes only that entry to be skipped:
\* the entry after it in the same frame is processed next
C22_OnlyOddEntrySkipped ==
    [][ (ProcessEntry /\ raw.bdy[idx].shape \in OddShapes /\ idx < Len(raw.bdy))
        => (pc' = "entry" /\ idx' = idx + 1 /\ raw' = raw)
      ]_vars

\* C30: a failed counts write during a firing hit puts a line in the system
\* log before processing continues
C30_WriteFailureLogged ==
    [][ (pc = "save" /\ pc' \notin {"save", "emit"}) => Len(syslog') = Len(syslog) + 1 ]_vars

\* the keywords given an explicit per-keyword threshold / window by the
\* stored configuration or by the environment
ExplicitThresholdKeys ==
    { LowerSeq(x) : x \in DOMAIN raw_config.per_keyword_thresholds }
    \cup { LowerSeq(x) : x \in DOMAIN environ.KEYWORD_THRESHOLDS }
    \cup { LowerSeq(raw_config.contains_keywords[i].keyword) :
             i \in { j \in DOMAIN raw_config.contains_keywords :
                        raw_config.contains_keywords[j].threshold # NoneVal } }

ExplicitWindowKeys ==
    { LowerSeq(x) : x \in DOMAIN raw_config.per_keyword_windows }
    \cup { LowerSeq(x) : x \in DOMAIN environ.KEYWORD_WINDOWS }
    \cup { LowerSeq(raw_config.contains_keywords[i].keyword) :
             i \in { j \in DOMAIN raw_config.contains_keywords :
                        raw_config.contains_keywords[j].window # NoneVal } }

\* C24: a keyword with no explicit per-keyword threshold (window) in the
\* configuration is evaluated with the global threshold (window)
C24_DefaultsToGlobal ==
    pc # "init" =>
        \A k \in policy.keywords :
            /\ k \notin ExplicitThresholdKeys
                => Get(policy.keyword_thresholds, k, policy.keyword_threshold)
                     = policy.keyword_threshold
            /\ k \notin ExplicitWindowKeys
                => Get(policy.keyword_windows, k, policy.keyword_window)
                     = policy.keyword_window

\* a stored value that needs no repair
ValidStored(value) == value.t = "int" /\ value.v >= 1

\* C25: where the stored configuration and the environment both give a value
\* for a setting, the session uses the stored one
C25_StoredWins ==
    pc # "init" =>
        /\ ValidStored(raw_config.global_threshold)
             => policy.keyword_threshold = raw_config.global_threshold.v
        /\ ValidStored(raw_config.global_window)
             => policy.keyword_window = raw_config.global_window.v
        /\ \A x \in DOMAIN raw_config.per_keyword_thresholds :
             (ValidStored(raw_config.per_keyword_thresholds[x])
                /\ LowerSeq(x) \notin SeqToSet(policy.containsList))
             => policy.keyword_thresholds[LowerSeq(x)] = raw_config.per_keyword_thresholds[x].v
        /\ \A x \in DOMAIN raw_config.per_keyword_windows :
             (ValidStored(raw_config.per_keyword_windows[x])
                /\ LowerSeq(x) \notin SeqToSet(policy.containsList))
             => policy.keyword_windows[LowerSeq(x)] = raw_config.per_keyword_windows[x].v

\* C26: the global threshold and window and every per-keyword threshold and
\* window of a session are integers >= 1, whatever the stored configuration
\* and the environment hold
C26_PositiveSettings ==
    pc # "init" =>
        /\ policy.keyword_threshold \in Nat \ {0}
        /\ policy.keyword_window \in Nat \ {0}
        /\ \A k \in DOMAIN policy.keyword_thresholds : policy.keyword_thresholds[k] \in Nat \ {0}
        /\ \A k \in DOMAIN policy.keyword_windows : policy.keyword_windows[k] \in Nat \ {0}

\* a session built from a stored per-keyword window that is no number, a
\* contains entry with window 0, a stored global threshold 0 and the
\* environment's KEYWORD_WINDOW "0"
C26_Witness ==
    /\ pc = "loop" /\ delivered > 0
    /\ raw_config.global_threshold = IntVal(0)
    /\ environ.KEYWORD_WINDOW = DigitStr(0) /\ policy.keyword_window = 1
    /\ raw_config.per_keyword_windows = (KwA :> OtherStr) /\ policy.keyword_windows[KwA] = DefaultWindow
    /\ Len(raw_config.contains_keywords) = 2
    /\ raw_config.contains_keywords[1].window = IntVal(0)
    /\ policy.keyword_windows[KwB] = DefaultWindow

\* C27: after construction every keyword is lower case and has exactly one
\* rule: a word-boundary pattern or a place in the contains list, never both
\* and never neither; no rule is held twice or for an unknown keyword
C27_ExactlyOneRule ==
    pc # "init" =>
        /\ \A k \in policy.keywords :
              /\ k = LowerSeq(k)
              /\ (k \in SeqToSet(policy.patterns)) # (k \in SeqToSet(policy.containsList))
        /\ SeqToSet(policy.patterns) \cup SeqToSet(policy.containsList) \subseteq policy.keywords
        /\ \A i, j \in DOMAIN policy.patterns : i # j => policy.patterns[i] # policy.patterns[j]
        /\ \A i, j \in DOMAIN policy.containsList :
              i # j => policy.containsList[i] # policy.containsList[j]

\* "b" is listed as a keyword and as a contains entry (twice, "b" and "B"),
\* "c" is known only as a key of the per-keyword threshold map
C27_Witness ==
    /\ pc = "loop"
    /\ raw_config.keywords = <<KwAUpper, KwB>>
    /\ Len(raw_config.contains_keywords) = 2
    /\ raw_config.per_keyword_thresholds = (KwC :> IntVal(2))
    /\ environ = NoEnv
    /\ policy.keywords = {KwA, KwB, KwC}
    /\ policy.containsList = <<KwB>>
    /\ SeqToSet(policy.patterns) = {KwA, KwC}

\* C28: save_counts(m) followed by load_counts() returns m with its keys
\* lower-cased and its negative values set to 0, for every map m
C28_SaveThenLoad ==
    [][ \A m \in CountMaps :
          SaveCountsCall(m) => LoadCounts(stored_counts', legacy_counts') = SanitizeCounts(m)
      ]_vars

Count(c, s) == Cardinality({ i \in DOMAIN s : s[i] = c })

\* C29: each detection record is one line of six tab-separated fields in the
\* event log
C29_OneLineSixFields ==
    \A i \in DOMAIN keyword_log :
        /\ Count(Newline, LogLine(keyword_log[i])) = 1
        /\ Count(Tab, LogLine(keyword_log[i])) = 5

\* C31: after a hit with timestamp t is recorded for a keyword with window w,
\* the window of that keyword holds no timestamp older than t - w, whatever
\* the order in which the message timestamps arrive
C31_NoStaleHitInWindow ==
    pc # "init" =>
        \A k \in DOMAIN keyword_hits_window :
            LET dq == keyword_hits_window[k]
            IN  dq # <<>> =>
                  \A i \in DOMAIN dq : dq[i] >= dq[Len(dq)] - MsPerSec * WindowOf(k)

\* C32: once stop() has been called and has returned and the worker loop has
\* exited, the session's connection is not open and the event log is closed
C32_StoppedSessionHoldsNothing ==
    (host = "gui" /\ stopFlag /\ spc = "ret" /\ pc = "done")
        => (sock \notin open /\ ~logOpen)

\* C33: when a reconnect replaces the session's connection, the previous
\* connection is closed no later than the moment the new one becomes the
\* session's connection
C33_PreviousClosedAtSwitch ==
    [][ sock' # sock => sock \notin open' ]_vars

\* no thread of another session is alive
OnlySession(s) == \A o \in Sessions \ {s} : wpc[o] \in {"none", "done", "dead"}

\* C34: across a sequence of sessions, each with its own keyword
\* configuration, the persisted cumulative count of a keyword never
\* decreases: not when a session that runs alone, and whose own counts are
\* not behind the store, persists its counts
C34_PersistedCountNeverDecreases ==
    [][ \A s \in Sessions :
          (Backend_save_write(s) /\ OnlySession(s)
             /\ \A k \in wkeys[s] : wcounts[s][k] >= Get(store.counts, k, 0))
          => \A k \in {KwA, KwB} : Get(store'.counts, k, 0) >= Get(store.counts, k, 0)
      ]_vars

\* C35: the persisted count of each keyword of a running session is at most
\* the session's in-memory cumulative count
C35_PersistedAtMostInMemory ==
    \A s \in Sessions :
        wpc[s] \in LoopPcs =>
            \A k \in wkeys[s] : Get(store.counts, k, 0) <= wcounts[s][k]

\* C36: once the Stop handler has run for a started session, the thread of
\* that session eventually leaves run()
C36_StopTerminatesWorker ==
    \A s \in Sessions : (s \in stopRan) ~> (wpc[s] \in {"done", "dead"})

\* C37: at most one session thread is inside the receive / dispatch loop
C37_OneWorkerInLoop ==
    Cardinality({ s \in Sessions : wpc[s] \in LoopPcs }) <= 1

\* C38: save_counts leaves the stored configuration as it is and save_config
\* leaves the stored counts as they are, whatever the interleaving of the two
C38_NoLostUpdate ==
    [][ /\ \A s \in Sessions : Backend_save_write(s) => store'.config = store.config
        /\ App_start => store'.counts = store.counts
      ]_vars

====
